---------------------------- MODULE Spec2Model ----------------------------
(***************************************************************************)
(* A model of the NFT retrieval pipeline of alex1092/nft-scraper:          *)
(*   src/src/utils/nftScraper.js   getWeb3Instance, getTokenURI,           *)
(*                                 fetchMetadata, fetchImageData,          *)
(*                                 processToken, scrapeNFTs                *)
(*   src/unnamed/part_000          the range endpoint (handleScrapeRequest)*)
(*   src/src/app/api/scrape/route.js, src/unnamed/part_001                 *)
(*                                 the single-token endpoint (POST)        *)
(*                                                                         *)
(* Every asynchronous function is a small state machine whose steps are    *)
(* cut at its awaits.  Each layer is checked under its own specification   *)
(* (SpecWeb3, SpecFetch, SpecResolve, Spec, SpecRoute); a layer that calls *)
(* a lower one sees the lower one's outcome as a nondeterministic choice   *)
(* over the outcomes the lower layer's own specification can produce.      *)
(***************************************************************************)
EXTENDS Integers, Sequences, FiniteSets, TLC

VARIABLES
  \* ---- getWeb3Instance (one call) ----
  w3pc,        \* "start" | "fallback" | "returned" | "threw"
  w3primary,   \* argument primaryProvider
  w3apiKey,    \* argument apiKey
  w3idx,       \* position of the for..of loop over Object.entries(RPC_PROVIDERS)
  w3probes,    \* history: the getBlockNumber probes issued, in order
  w3handle,    \* the endpoint the returned Web3 instance is bound to
  w3error,     \* the error the call threw
  \* ---- fetchMetadata / fetchImageData (one call) ----
  fpc,         \* "start" | "gateway" | "direct" | "returned"
  fkind,       \* "json" (fetchMetadata) | "binary" (fetchImageData)
  furi,        \* argument tokenURI / imageUrl
  fidx,        \* position of the for..of loop over IPFS_GATEWAYS
  frequests,   \* history: the HTTP GETs issued, in order
  flastError,  \* local lastError
  fcaught,     \* the error the outer catch block received (and logged)
  fresult,     \* the value returned
  \* ---- getTokenURI (the calls of two callers) and the module's cache ----
  tokenURICache, \* the Map tokenURICache: cache key -> cached string
  rpc,         \* per caller: "idle" | "web3" | "info" | "tokenURI" | "uri" |
               \*             "returned" | "threw"
  rargs,       \* per caller: the arguments contractAddress, tokenId
  rret,        \* per caller: the value returned
  rio,         \* per caller, history: the network calls the call issued
  rafter,      \* per caller, history: the callers whose calls had ended
               \* when this caller's call started
  \* ---- scrapeNFTs (one call) and its processToken calls ----
  spc,         \* "start" | "await" (at await Promise.all) | "returned" | "threw"
  sargs,       \* arguments contractAddress, startTokenId, endTokenId
  tokenIds,    \* local tokenIds
  si,          \* loop variable i
  results,     \* local results
  tpc,         \* per token id, its processToken call: "none" | "uri" | "meta" |
               \*   "image" | "fulfilled" | "rejected"
  tres,        \* per token id: the TokenResult its call returned
  thist,       \* per token id, history: what each stage of its call obtained
  outOfOrder,  \* history: some call settled before an earlier call of its batch
  \* ---- one request to an endpoint (route handlers) ----
  hpc,         \* "start" | "scrape" | "zip" | "uri" | "meta" | "image" |
               \*   "responded" | "fault" (an exception left the handler)
  hreq,        \* the request and the server's environment variables
  hresp,       \* the response
  hcall,       \* history: the start and end the handler passed to scrapeNFTs
  \* ---- one image on its way from the single-token endpoint to the client ----
  cpc,         \* "start" | "encoded" (in the response) | "decoded" (in the client)
  cbytes,      \* imageData.data: the bytes fetchImageData returned
  cbase64,     \* imageData.base64 of the response, as its characters
  carray,      \* the client's Uint8Array
  \* ---- one submission of the web form (page.js handleSubmit) ----
  upc,         \* "start" | "refused" | "loop" | "await" (at await fetch) |
               \*   "done" | "error"
  uin,         \* the form's state: contractAddress, startTokenId, endTokenId
               \* as the inputs hold them, and the deployed endpoint version
  utoken,      \* loop variable tokenId
  uactualEnd,  \* local actualEndTokenId
  uposted,     \* history: the number of POSTs the submission issued
  ulast,       \* the last element pushed on allResults
  uerror       \* the message handed to setError

w3vars == <<w3pc, w3primary, w3apiKey, w3idx, w3probes, w3handle, w3error>>

fvars == <<fpc, fkind, furi, fidx, frequests, flastError, fcaught, fresult>>

rvars == <<tokenURICache, rpc, rargs, rret, rio, rafter>>

svars == <<spc, sargs, tokenIds, si, results, tpc, tres, thist, outOfOrder>>

hvars == <<hpc, hreq, hresp, hcall>>

cvars == <<cpc, cbytes, cbase64, carray>>

uvars == <<upc, uin, utoken, uactualEnd, uposted, ulast, uerror>>

vars == <<w3vars, fvars, rvars, svars, hvars, cvars, uvars>>

-----------------------------------------------------------------------------
(***************************************************************************)
(* JavaScript values that occur in the pipeline.                           *)
(***************************************************************************)
None == "none"

\* A JavaScript Error: its message text, the endpoint, gateway or method it
\* names, and the message of the error it wraps ("" when it wraps none).
Err(text, who, cause) == [text |-> text, who |-> who, cause |-> cause]

NoError == Err("", "", "")

\* A string, as the sequence of its pieces, and a value that is no string
\* (a number, an object): calling a string method on it throws a TypeError.
JsStr(s) == [t |-> "str", s |-> s, n |-> 0]

JsNum(n) == [t |-> "num", s |-> <<>>, n |-> n]

NotAString == [t |-> "other", s |-> <<>>, n |-> 0]

IsString(v) == v.t = "str"

\* e is the error inner, or wraps it as its cause.
Carries(e, inner) ==
  \/ e = inner
  \/ e.cause = inner.text /\ e.who = inner.who /\ inner.text # ""

-----------------------------------------------------------------------------
(***************************************************************************)
(* Resource Fetcher: fetchMetadata and fetchImageData, nftScraper.js       *)
(* 54-63 and 209-322                                                       *)
(***************************************************************************)

IPFS_GATEWAYS ==
  << "https://ipfs.io/ipfs/",
     "https://gateway.pinata.cloud/ipfs/",
     "https://dweb.link/ipfs/",
     "https://ipfs.fleek.co/ipfs/",
     "https://gateway.ipfs.io/ipfs/",
     "https://cf-ipfs.com/ipfs/",
     "https://cloudflare-ipfs.com/ipfs/" >>

NumGateways == Len(IPFS_GATEWAYS)

IpfsScheme == "ipfs://"

\* uri.startsWith("ipfs://")
StartsWithIpfs(s) == Len(s) > 0 /\ s[1] = IpfsScheme

\* s.replace("ipfs://", ""): the first occurrence only.
RECURSIVE ReplaceFirstIpfs(_)
ReplaceFirstIpfs(s) ==
  IF s = <<>> THEN <<>>
  ELSE IF Head(s) = IpfsScheme THEN Tail(s)
  ELSE <<Head(s)>> \o ReplaceFirstIpfs(Tail(s))

\* gateway + ipfsHash
GatewayUrl(i, ipfsHash) == <<IPFS_GATEWAYS[i]>> \o ipfsHash

\* The URIs fetched: content-addressed ones (one of them with the scheme
\* text twice), plain HTTP ones, and a value that is no string.
FetchUris ==
  { JsStr(<<IpfsScheme, "bafy123">>),
    JsStr(<<IpfsScheme, IpfsScheme, "bafy456">>),
    JsStr(<<"https://host/", "7.json">>),
    NotAString }

\* What a GET can end in: a 2xx response with or without a content-type
\* header, or an axios error (a non-2xx status, a timeout).
HttpOutcomes == {"200 image/png", "200 no content-type", "503", "timeout"}

IsSuccess(outcome) == outcome \in {"200 image/png", "200 no content-type"}

\* response.headers["content-type"]; "" stands for an absent header.
ContentTypeHeader(outcome) ==
  IF outcome = "200 image/png" THEN "image/png" ELSE ""

\* response.data of the response a URL gave.
ResponseData(url) == <<"body of">> \o url

HttpError(outcome, url) == Err(outcome, url, "")

\* The per-request timeout: 10 s for JSON, 15 s for binary.
JsonTimeoutMs == 10000

BinaryTimeoutMs == 15000

RequestTimeout(kind) == IF kind = "json" THEN JsonTimeoutMs ELSE BinaryTimeoutMs

RequestToFirstGateway(kind, url, outcome) ==
  [ url |-> <<IPFS_GATEWAYS[1]>> \o url, timeout |-> RequestTimeout(kind),
    userAgent |-> "NFT-Scraper/1.0", outcome |-> outcome ]

Request(kind, url, outcome) ==
  [ url |-> url, timeout |-> RequestTimeout(kind),
    userAgent |-> "NFT-Scraper/1.0", outcome |-> outcome ]

NullResult == [isNull |-> TRUE, data |-> <<>>, contentType |-> ""]

\* fetchMetadata returns response.data; fetchImageData returns
\* { data, contentType: header || "image/jpeg" }.
FetchResult(kind, url, outcome) ==
  [ isNull |-> FALSE,
    data |-> ResponseData(url),
    contentType |->
      IF kind = "json" THEN ""
      ELSE IF ContentTypeHeader(outcome) # "" THEN ContentTypeHeader(outcome)
      ELSE "image/jpeg" ]

TypeErrorStartsWith == Err("startsWith is not a function", "", "")

\* `throw lastError || new Error("All IPFS gateways failed")`
AllGatewaysGenericError(lastError) == Err("All IPFS gateways failed", "", "")

AllGatewaysError(lastError) ==
  IF lastError # NoError THEN lastError
  ELSE Err("All IPFS gateways failed", "", "")

\* After a failed gateway request the loop goes on to the next entry.
SkipAGateway(i) == i + 2

NextGateway(i) == i + 1

\* The synchronous start of the call: the scheme test.
FetchEnter ==
  /\ fpc = "start"
  /\ IF ~IsString(furi)
       THEN \* furi.startsWith throws inside the try: catch, return null
            /\ fpc' = "returned"
            /\ fcaught' = TypeErrorStartsWith
            /\ fresult' = NullResult
            /\ UNCHANGED <<fidx, flastError>>
       ELSE IF StartsWithIpfs(furi.s)
         THEN /\ fpc' = "gateway"
              /\ fidx' = 1
              /\ flastError' = NoError
              /\ UNCHANGED <<fcaught, fresult>>
         ELSE /\ fpc' = "direct"
              /\ UNCHANGED <<fidx, flastError, fcaught, fresult>>
  /\ UNCHANGED <<fkind, furi, frequests>>
  /\ UNCHANGED <<w3vars, rvars, svars, hvars, cvars, uvars>>

\* One iteration of the gateway loop: one GET and its outcome.
FetchGateway ==
  /\ fpc = "gateway"
  /\ fidx <= NumGateways
  /\ \E outcome \in HttpOutcomes :
       LET url == GatewayUrl(fidx, ReplaceFirstIpfs(furi.s))
       IN /\ frequests' = Append(frequests, Request(fkind, url, outcome))
          /\ IF IsSuccess(outcome)
               THEN /\ fpc' = "returned"
                    /\ fresult' = FetchResult(fkind, url, outcome)
                    /\ UNCHANGED <<fidx, flastError, fcaught>>
               ELSE IF NextGateway(fidx) <= NumGateways
                 THEN /\ fidx' = NextGateway(fidx)
                      /\ flastError' = HttpError(outcome, url)
                      /\ UNCHANGED <<fpc, fcaught, fresult>>
                 ELSE \* the loop is over: throw, caught by the outer catch
                      /\ fpc' = "returned"
                      /\ fidx' = NextGateway(fidx)
                      /\ flastError' = HttpError(outcome, url)
                      /\ fcaught' = AllGatewaysError(HttpError(outcome, url))
                      /\ fresult' = NullResult
  /\ UNCHANGED <<fkind, furi>>
  /\ UNCHANGED <<w3vars, rvars, svars, hvars, cvars, uvars>>

\* A URI without the scheme: one direct GET.
FetchDirect ==
  /\ fpc = "direct"
  /\ \E outcome \in HttpOutcomes :
       /\ frequests' = Append(frequests, Request(fkind, furi.s, outcome))
       /\ fpc' = "returned"
       /\ IF IsSuccess(outcome)
            THEN /\ fresult' = FetchResult(fkind, furi.s, outcome)
                 /\ UNCHANGED fcaught
            ELSE /\ fcaught' = HttpError(outcome, furi.s)
                 /\ fresult' = NullResult
  /\ UNCHANGED <<fkind, furi, fidx, flastError>>
  /\ UNCHANGED <<w3vars, rvars, svars, hvars, cvars, uvars>>

IdleFetch ==
  /\ fpc = "idle"
  /\ fkind = "json"
  /\ furi = NotAString
  /\ fidx = 0
  /\ frequests = <<>>
  /\ flastError = NoError
  /\ fcaught = NoError
  /\ fresult = NullResult

-----------------------------------------------------------------------------
(***************************************************************************)
(* Token URI Resolver: getTokenURI and its cache, nftScraper.js 38-43 and  *)
(* 131-207                                                                 *)
(***************************************************************************)

\* The callers of getTokenURI, named by the order in which they call.
CallerOrder == <<"first", "second", "third">>

Callers == {CallerOrder[i] : i \in 1..Len(CallerOrder)}

\* c's turn to call: every earlier caller has called.
IsNextCaller(c) ==
  \E i \in 1..Len(CallerOrder) :
    /\ CallerOrder[i] = c
    /\ \A j \in 1..(i - 1) : rpc[CallerOrder[j]] # "idle"

\* Contract addresses, as their characters: two spellings of one address,
\* and a value that is no string (a number in the request's JSON body).
MixedCaseAddress == JsStr(<<"0", "x", "A", "b">>)

LowerCaseAddress == JsStr(<<"0", "x", "a", "b">>)

\* The (contractAddress, tokenId) arguments tried.  Token ids are numbers
\* (scrapeNFTs passes numbers) and strings (the single-token endpoint passes
\* whatever the request body holds).
ResolveInputs ==
  { <<MixedCaseAddress, JsNum(1)>>,
    <<LowerCaseAddress, JsNum(1)>>,
    <<LowerCaseAddress, JsStr(<<"1">>)>>,
    <<LowerCaseAddress, JsStr(<<"0", "1">>)>>,
    <<LowerCaseAddress, JsNum(10)>>,
    <<NotAString, JsNum(1)>> }

\* One character of String.prototype.toLowerCase.
LowerChar(c) ==
  CASE c = "A" -> "a"
    [] c = "B" -> "b"
    [] OTHER   -> c

ToLowerCase(s) == [i \in 1..Len(s) |-> LowerChar(s[i])]

DigitChar(d) == <<"0", "1", "2", "3", "4", "5", "6", "7", "8", "9">>[d + 1]

\* Number.prototype.toString(): the decimal digits of a non-negative integer.
RECURSIVE DecimalDigits(_)
DecimalDigits(n) ==
  IF n < 10 THEN <<DigitChar(n)>>
  ELSE DecimalDigits(n \div 10) \o <<DigitChar(n % 10)>>

\* `${tokenId}` and tokenId.toString()
ToStringJs(v) == IF v.t = "num" THEN DecimalDigits(v.n) ELSE v.s

\* getCacheKey: `${contractAddress.toLowerCase()}-${tokenId}`
\* (defined for a string contractAddress; otherwise the call throws).
getCacheKeyAddressOnly(contractAddress, tokenId) == ToLowerCase(contractAddress.s)

getCacheKey(contractAddress, tokenId) ==
  ToLowerCase(contractAddress.s) \o <<"-">> \o ToStringJs(tokenId)

\* str.padStart(targetLength, "0")
RECURSIVE PadStart(_, _)
PadStart(s, targetLength) ==
  IF Len(s) >= targetLength THEN s ELSE PadStart(<<"0">> \o s, targetLength)

IdWidth == 64

IdPlaceholder == "{id}"

\* s.replace("{id}", by): the first occurrence only; s is a sequence of
\* pieces and the placeholder is one piece.
RECURSIVE ReplaceFirstId(_, _)
ReplaceFirstId(s, by) ==
  IF s = <<>> THEN <<>>
  ELSE IF Head(s) = IdPlaceholder THEN by \o Tail(s)
  ELSE <<Head(s)>> \o ReplaceFirstId(Tail(s), by)

\* uri.replace("{id}", tokenId.toString().padStart(64, "0"))
FormatUri(uri, tokenId) ==
  ReplaceFirstId(uri, PadStart(ToStringJs(tokenId), IdWidth))

\* What tokenURI(tokenId).call() can return: an empty string, a pointer.
TokenURIValues == { <<>>, <<IpfsScheme, "bafymeta">> }

\* What uri(tokenId).call() can return: a template with the placeholder.
UriValues == { <<"https://host/", IdPlaceholder, ".json">> }

NullValue == [isNull |-> TRUE, s |-> <<>>]

StringValue(s) == [isNull |-> FALSE, s |-> s]

\* tokenURICache.has(key)
CacheNeverHit(key) == FALSE

CacheHas(key) == key \in DOMAIN tokenURICache

\* tokenURICache.get(key)
CacheGetEmpty(key) == <<>>

CacheGet(key) == tokenURICache[key]

\* tokenURICache.set(key, value)
CacheSetIfAbsent(key, value) ==
  IF key \in DOMAIN tokenURICache THEN tokenURICache
  ELSE [k \in DOMAIN tokenURICache \cup {key} |->
          IF k = key THEN value ELSE tokenURICache[k]]

CacheSetNothing(key, value) == tokenURICache

CacheSet(key, value) ==
  [k \in DOMAIN tokenURICache \cup {key} |->
     IF k = key THEN value ELSE tokenURICache[k]]

\* A failed resolution stores nothing.
CacheStoresFailure(key) == CacheSet(key, <<"null">>)

CacheAfterFailure(key) == tokenURICache

NoArgs == [contractAddress |-> NotAString, tokenId |-> JsNum(0)]

\* getTokenURI is called: the code up to the first await.
RCall(c, contractAddress, tokenId) ==
  /\ rpc[c] = "idle"
  /\ IsNextCaller(c)
  /\ rargs' = [rargs EXCEPT ![c] =
                 [contractAddress |-> contractAddress, tokenId |-> tokenId]]
  /\ rafter' = [rafter EXCEPT ![c] =
                  {d \in Callers : rpc[d] \in {"returned", "threw"}}]
  /\ IF ~IsString(contractAddress)
       THEN \* contractAddress.toLowerCase is not a function: getCacheKey
            \* runs before the try block, the call rejects
            /\ rpc' = [rpc EXCEPT ![c] = "threw"]
            /\ UNCHANGED <<rret, tokenURICache, rio>>
       ELSE IF CacheHas(getCacheKey(contractAddress, tokenId))
         THEN /\ rpc' = [rpc EXCEPT ![c] = "returned"]
              /\ rret' = [rret EXCEPT ![c] =
                   StringValue(CacheGet(getCacheKey(contractAddress, tokenId)))]
              /\ UNCHANGED <<tokenURICache, rio>>
         ELSE /\ rpc' = [rpc EXCEPT ![c] = "web3"]
              /\ UNCHANGED <<rret, tokenURICache, rio>>
  /\ UNCHANGED <<w3vars, fvars, svars, hvars, cvars, uvars>>

Key(c) == getCacheKey(rargs[c].contractAddress, rargs[c].tokenId)

\* await getWeb3Instance(...): a handle, or AllProvidersFailed.
RWeb3(c) ==
  /\ rpc[c] = "web3"
  /\ rio' = [rio EXCEPT ![c] = Append(@, "getBlockNumber")]
  /\ \E connected \in BOOLEAN :
       IF connected
         THEN /\ rpc' = [rpc EXCEPT ![c] = "info"]
              /\ UNCHANGED <<rret, tokenURICache>>
         ELSE \* outer catch: return null
              /\ rpc' = [rpc EXCEPT ![c] = "returned"]
              /\ rret' = [rret EXCEPT ![c] = NullValue]
              /\ tokenURICache' = CacheAfterFailure(Key(c))
  /\ UNCHANGED <<rargs, rafter, w3vars, fvars, svars, hvars, cvars, uvars>>

\* name() and symbol(), for the log only; a failure is caught and logged.
RInfo(c) ==
  /\ rpc[c] = "info"
  /\ rio' = [rio EXCEPT ![c] = Append(@, "name/symbol")]
  /\ rpc' = [rpc EXCEPT ![c] = "tokenURI"]
  /\ UNCHANGED <<rargs, rret, rafter, tokenURICache, w3vars, fvars, svars, hvars, cvars, uvars>>

\* await nftContract.methods.tokenURI(tokenId).call()
RTokenURI(c) ==
  /\ rpc[c] = "tokenURI"
  /\ rio' = [rio EXCEPT ![c] = Append(@, "tokenURI")]
  /\ \/ \E v \in TokenURIValues :
          /\ tokenURICache' = CacheSet(Key(c), v)
          /\ rret' = [rret EXCEPT ![c] = StringValue(v)]
          /\ rpc' = [rpc EXCEPT ![c] = "returned"]
     \/ \* the call throws: try uri
        /\ rpc' = [rpc EXCEPT ![c] = "uri"]
        /\ UNCHANGED <<rret, tokenURICache>>
  /\ UNCHANGED <<rargs, rafter, w3vars, fvars, svars, hvars, cvars, uvars>>

\* await nftContract.methods.uri(tokenId).call()
RUri(c) ==
  /\ rpc[c] = "uri"
  /\ rio' = [rio EXCEPT ![c] = Append(@, "uri")]
  /\ \/ \E u \in UriValues :
          LET formattedUri == FormatUri(u, rargs[c].tokenId)
          IN /\ tokenURICache' = CacheSet(Key(c), formattedUri)
             /\ rret' = [rret EXCEPT ![c] = StringValue(formattedUri)]
             /\ rpc' = [rpc EXCEPT ![c] = "returned"]
     \/ \* "Both tokenURI and uri methods failed": outer catch, return null
        /\ rpc' = [rpc EXCEPT ![c] = "returned"]
        /\ rret' = [rret EXCEPT ![c] = NullValue]
        /\ tokenURICache' = CacheAfterFailure(Key(c))
  /\ UNCHANGED <<rargs, rafter, w3vars, fvars, svars, hvars, cvars, uvars>>

IdleResolve ==
  /\ tokenURICache = <<>>
  /\ rpc = [c \in Callers |-> "idle"]
  /\ rargs = [c \in Callers |-> NoArgs]
  /\ rret = [c \in Callers |-> NullValue]
  /\ rio = [c \in Callers |-> <<>>]
  /\ rafter = [c \in Callers |-> {}]

-----------------------------------------------------------------------------
(***************************************************************************)
(* Token Processor and Collection Scraper: processToken and scrapeNFTs,    *)
(* nftScraper.js 324-411                                                   *)
(***************************************************************************)

BatchSize == 5

\* The largest endTokenId tried.
MaxTokenId == 6

TokenSpace == 1..MaxTokenId

ScrapeStarts == {1, 2}

ScrapeContracts == {MixedCaseAddress, NotAString}

\* The cache a scrape can find: empty, or holding the pointer (possibly the
\* empty string) that an earlier resolution stored for one token.
WarmTokenId == 2

PriorCaches ==
  {<<>>} \cup
  { [k \in {getCacheKey(LowerCaseAddress, JsNum(WarmTokenId))} |-> v] :
      v \in TokenURIValues }

\* for (let i = Number(startTokenId); i <= Number(endTokenId); i++) tokenIds.push(i)
RangeIdsNeverEmpty(startTokenId, endTokenId) ==
  IF startTokenId > endTokenId THEN <<startTokenId>>
  ELSE [k \in 1..(endTokenId - startTokenId + 1) |-> startTokenId + k - 1]

RangeIdsOfStartOnly(startTokenId, endTokenId) ==
  IF startTokenId > endTokenId THEN <<>>
  ELSE [k \in 1..(endTokenId - startTokenId + 1) |-> startTokenId]

RangeIds(startTokenId, endTokenId) ==
  IF startTokenId > endTokenId THEN <<>>
  ELSE [k \in 1..(endTokenId - startTokenId + 1) |-> startTokenId + k - 1]

Min(a, b) == IF a <= b THEN a ELSE b

\* tokenIds.slice(i, i + batchSize)
SliceToEnd(ids, i) == SubSeq(ids, i + 1, Len(ids))

SliceDropsLast(ids, i) == SubSeq(ids, i + 1, Min(i + BatchSize - 1, Len(ids)))

Slice(ids, i) == SubSeq(ids, i + 1, Min(i + BatchSize, Len(ids)))

Batch == Slice(tokenIds, si)

InBatch(id) == \E k \in 1..Len(Batch) : Batch[k] = id

\* The values fetchMetadata can return besides null: an empty body, a
\* document without an image field, one whose image is the empty string,
\* and one with an image reference.
EmptyBody == "(empty body)"

DocWithoutImage == "{name}"

DocWithEmptyImage == "{name, image: ''}"

DocWithImage == "{name, image: 'ipfs://bafyimage'}"

MetadataValues == {EmptyBody, DocWithoutImage, DocWithEmptyImage, DocWithImage}

Undefined == "undefined"

\* metadata.image
ImageOf(metadata) ==
  CASE metadata = DocWithImage      -> "ipfs://bafyimage"
    [] metadata = DocWithEmptyImage -> ""
    [] OTHER                        -> Undefined

\* !metadata || !metadata.image
MetadataUnusable(metadata) ==
  \/ metadata = EmptyBody
  \/ ImageOf(metadata) \in {"", Undefined}

NoValue == "null"

ImageBytes == "{data, contentType}"

Failure(tokenId, error) ==
  [ tokenId |-> tokenId, success |-> FALSE, error |-> error,
    metadata |-> NoValue, imageData |-> NoValue ]

Success(tokenId, metadata, imageData) ==
  [ tokenId |-> tokenId, success |-> TRUE, error |-> "",
    metadata |-> metadata, imageData |-> imageData ]

NoResult == Failure(0, "")

InFlight(id) == tpc[id] \in {"uri", "meta", "image"}

Settled(id) == tpc[id] \in {"fulfilled", "rejected"}

NoHistory ==
  [resolved |-> FALSE, fetched |-> FALSE, hasImage |-> FALSE, imageFetched |-> FALSE]

\* processToken after `await getTokenURI(...)` gave tokenURI (a string).
\* `if (!tokenURI)`: the empty string counts as no pointer.
AfterPointer(id, tokenURI) ==
  IF tokenURI = <<>>
    THEN [pc |-> "fulfilled", res |-> Failure(id, "Failed to get tokenURI")]
    ELSE [pc |-> "meta", res |-> NoResult]

\* processToken after `await fetchMetadata(tokenURI)` gave metadata.
AfterMetadataBlamesImage(id, metadata) ==
  IF metadata = NoValue \/ MetadataUnusable(metadata)
    THEN [pc |-> "fulfilled", res |-> Failure(id, "Failed to download image")]
    ELSE [pc |-> "image", res |-> Success(id, metadata, NoValue)]

AfterMetadata(id, metadata) ==
  IF metadata = NoValue \/ MetadataUnusable(metadata)
    THEN [pc |-> "fulfilled",
          res |-> Failure(id, "Failed to fetch metadata or no image found")]
    ELSE [pc |-> "image", res |-> Success(id, metadata, NoValue)]

\* processToken after `await fetchImageData(imageUrl)` gave imageData.
SuccessWithoutImage(id, metadata, imageData) == Success(id, metadata, imageData)

AfterImage(id, metadata, imageData) ==
  IF imageData = NoValue
    THEN Failure(id, "Failed to download image")
    ELSE Success(id, metadata, imageData)

\* processToken(contractAddress, id, ...) is called: the code up to its first
\* wait for the network, given the cache.
Started(contractAddress, id, cache) ==
  IF ~IsString(contractAddress)
    THEN \* getCacheKey throws in getTokenURI, before its try block
         [pc |-> "rejected", res |-> NoResult, resolved |-> FALSE]
  ELSE IF getCacheKey(contractAddress, JsNum(id)) \in DOMAIN cache
    THEN AfterPointer(id, cache[getCacheKey(contractAddress, JsNum(id))])
           @@ [resolved |-> TRUE]
    ELSE [pc |-> "uri", res |-> NoResult, resolved |-> FALSE]

\* batch.map((tokenId) => processToken(...)): every call of the batch starts.
\* The calls of the batch before are over; their results live on in results.
StartBatch(batch) ==
  LET ids == {batch[k] : k \in 1..Len(batch)}
      st(id) == Started(sargs.contractAddress, id, tokenURICache)
  IN /\ tpc' = [id \in TokenSpace |-> IF id \in ids THEN st(id).pc ELSE "none"]
     /\ tres' = [id \in TokenSpace |-> IF id \in ids THEN st(id).res ELSE NoResult]
     /\ thist' = [id \in TokenSpace |->
                   IF id \in ids
                     THEN [NoHistory EXCEPT !.resolved = st(id).resolved]
                     ELSE NoHistory]

rcalls == <<rpc, rargs, rret, rio, rafter>>

\* scrapeNFTs is called: build tokenIds, enter the loop.
ScrapeCall ==
  /\ spc = "start"
  /\ LET ids == RangeIds(sargs.startTokenId, sargs.endTokenId)
     IN /\ tokenIds' = ids
        /\ si' = 0
        /\ IF Len(ids) = 0
             THEN /\ spc' = "returned"
                  /\ UNCHANGED <<tpc, tres, thist>>
             ELSE /\ spc' = "await"
                  /\ StartBatch(Slice(ids, 0))
  /\ UNCHANGED <<sargs, results, outOfOrder, tokenURICache, rcalls, w3vars, fvars, hvars, cvars, uvars>>

\* A call of the batch settles while an earlier one is still running.
SettlesOutOfOrder(id) ==
  outOfOrder \/ \E other \in TokenSpace : other < id /\ InBatch(other) /\ InFlight(other)

\* getTokenURI of token id ends: null, or the string the contract returned,
\* which getTokenURI has stored in the cache.
TResolved(id) ==
  /\ spc \in {"await", "threw"}
  /\ tpc[id] = "uri"
  /\ \/ /\ tpc' = [tpc EXCEPT ![id] = "fulfilled"]
        /\ tres' = [tres EXCEPT ![id] = Failure(id, "Failed to get tokenURI")]
        /\ tokenURICache' =
             CacheAfterFailure(getCacheKey(sargs.contractAddress, JsNum(id)))
        /\ outOfOrder' = SettlesOutOfOrder(id)
        /\ UNCHANGED thist
     \/ \E tokenURI \in TokenURIValues :
          /\ tokenURICache' =
               CacheSet(getCacheKey(sargs.contractAddress, JsNum(id)), tokenURI)
          /\ thist' = [thist EXCEPT ![id].resolved = TRUE]
          /\ tpc' = [tpc EXCEPT ![id] = AfterPointer(id, tokenURI).pc]
          /\ tres' = [tres EXCEPT ![id] = AfterPointer(id, tokenURI).res]
          /\ outOfOrder' = IF AfterPointer(id, tokenURI).pc = "fulfilled"
                             THEN SettlesOutOfOrder(id) ELSE outOfOrder
  /\ UNCHANGED <<spc, sargs, tokenIds, si, results, rcalls, w3vars, fvars, hvars, cvars, uvars>>

\* fetchMetadata of token id ends: null, or response.data.
TMetadata(id) ==
  /\ spc \in {"await", "threw"}
  /\ tpc[id] = "meta"
  /\ \E metadata \in MetadataValues \cup {NoValue} :
       /\ tpc' = [tpc EXCEPT ![id] = AfterMetadata(id, metadata).pc]
       /\ tres' = [tres EXCEPT ![id] = AfterMetadata(id, metadata).res]
       /\ thist' = [thist EXCEPT
                      ![id].fetched = metadata # NoValue,
                      ![id].hasImage = metadata \in {DocWithImage}]
       /\ outOfOrder' = IF AfterMetadata(id, metadata).pc = "fulfilled"
                          THEN SettlesOutOfOrder(id) ELSE outOfOrder
  /\ UNCHANGED <<spc, sargs, tokenIds, si, results, tokenURICache, rcalls, w3vars, fvars, hvars, cvars, uvars>>

\* fetchImageData of token id ends: null, or { data, contentType }.
TImage(id) ==
  /\ spc \in {"await", "threw"}
  /\ tpc[id] = "image"
  /\ \E imageData \in {NoValue, ImageBytes} :
       /\ tpc' = [tpc EXCEPT ![id] = "fulfilled"]
       /\ tres' = [tres EXCEPT ![id] = AfterImage(id, tres[id].metadata, imageData)]
       /\ thist' = [thist EXCEPT ![id].imageFetched = imageData # NoValue]
  /\ outOfOrder' = SettlesOutOfOrder(id)
  /\ UNCHANGED <<spc, sargs, tokenIds, si, results, tokenURICache, rcalls, w3vars, fvars, hvars, cvars, uvars>>

\* The array Promise.all resolves to: one result per call, in batch order.
BatchResultsReversed(batch) ==
  [k \in 1..Len(batch) |-> tres[batch[Len(batch) + 1 - k]]]

BatchResults(batch) == [k \in 1..Len(batch) |-> tres[batch[k]]]

\* Promise.all(...) fulfils once every call of the batch is fulfilled.
AnyFulfilled(batch) == \E k \in 1..Len(batch) : tpc[batch[k]] = "fulfilled"

AllFulfilled(batch) == \A k \in 1..Len(batch) : tpc[batch[k]] = "fulfilled"

\* `await Promise.all(...)` resumes: it throws as soon as one call rejected,
\* and otherwise, once every call is fulfilled, the results are pushed and
\* the loop goes on with the next batch or the function returns.
BatchDone ==
  /\ spc = "await"
  /\ IF \E k \in 1..Len(Batch) : tpc[Batch[k]] = "rejected"
       THEN /\ spc' = "threw"
            /\ UNCHANGED <<si, results, tpc, tres, thist>>
       ELSE /\ AllFulfilled(Batch)
            /\ results' = results \o BatchResults(Batch)
            /\ si' = si + BatchSize
            /\ IF si + BatchSize < Len(tokenIds)
                 THEN /\ StartBatch(Slice(tokenIds, si + BatchSize))
                      /\ UNCHANGED spc
                 ELSE /\ spc' = "returned"
                      /\ StartBatch(<<>>)
  /\ UNCHANGED <<sargs, tokenIds, outOfOrder, tokenURICache, rcalls, w3vars, fvars, hvars, cvars, uvars>>

\* The object scrapeNFTs returns.  sargs holds startTokenId and endTokenId as
\* the numbers Number() gives for them.
ScrapeResult ==
  [ contractAddress |-> sargs.contractAddress,
    startTokenId |-> sargs.startTokenId,
    endTokenId |-> sargs.endTokenId,
    results |-> results ]

NoScrapeArgs == [contractAddress |-> NotAString, startTokenId |-> 0, endTokenId |-> 0]

ScrapeLocals ==
  /\ tokenIds = <<>>
  /\ si = 0
  /\ results = <<>>
  /\ tpc = [id \in TokenSpace |-> "none"]
  /\ tres = [id \in TokenSpace |-> NoResult]
  /\ thist = [id \in TokenSpace |-> NoHistory]
  /\ outOfOrder = FALSE

IdleScrape ==
  /\ spc = "idle"
  /\ sargs = NoScrapeArgs
  /\ ScrapeLocals

-----------------------------------------------------------------------------
(***************************************************************************)
(* The endpoints: the range endpoint (unnamed/part_000) and the two        *)
(* versions of the single-token endpoint (app/api/scrape/route.js,         *)
(* unnamed/part_001)                                                       *)
(***************************************************************************)

RangeEndpoints == {"range GET", "range POST"}

TokenEndpoints == {"token route.js", "token part_001"}

\* A parameter the request does not hold (undefined, or null from
\* searchParams.get).
Absent == [t |-> "absent", s |-> <<>>, n |-> 0]

\* !v
Falsy(v) ==
  \/ v.t = "absent"
  \/ v.t = "num" /\ v.n = 0
  \/ v.t = "str" /\ v.s = <<>>

DigitValue(c) ==
  CASE c = "0" -> 0 [] c = "1" -> 1 [] c = "2" -> 2 [] c = "3" -> 3 [] c = "4" -> 4
    [] c = "5" -> 5 [] c = "6" -> 6 [] c = "7" -> 7 [] c = "8" -> 8 [] c = "9" -> 9

RECURSIVE ParseDigits(_)
ParseDigits(s) ==
  IF s = <<>> THEN 0
  ELSE 10 * ParseDigits(SubSeq(s, 1, Len(s) - 1)) + DigitValue(s[Len(s)])

\* Number(v), for a number and for a string of decimal digits.
NumberOf(v) == IF v.t = "num" THEN v.n ELSE ParseDigits(v.s)

\* The values a request gives for contractAddress, for tokenId or
\* startTokenId, and for endTokenId: query strings in a GET, JSON values in
\* a POST body.
ContractValues(endpoint) ==
  IF endpoint = "range GET" THEN {Absent, MixedCaseAddress}
  ELSE {Absent, MixedCaseAddress, NotAString}

FirstIdValues(endpoint) ==
  IF endpoint = "range GET" THEN {Absent, JsStr(<<"0">>), JsStr(<<"1">>)}
  ELSE {Absent, JsNum(0), JsNum(1)}

EndIdValues(endpoint) ==
  CASE endpoint = "range GET"  -> {Absent, JsStr(<<"0">>), JsStr(<<"1">>), JsStr(<<"1", "5", "0">>)}
    [] endpoint = "range POST" -> {Absent, JsNum(0), JsNum(1), JsNum(150)}
    [] OTHER                   -> {Absent}

\* process.env.PRIMARY_PROVIDER; "" stands for an unset variable.
ProviderSettings == {"", "infura", "alchemy", "ankr"}

\* process.env.PRIMARY_PROVIDER || "infura"
PrimaryProviderOf(setting) == IF setting = "" THEN "infura" ELSE setting

Requests ==
  { r \in [ endpoint : RangeEndpoints \cup TokenEndpoints,
            bodyOk : BOOLEAN,
            contractAddress : {Absent, MixedCaseAddress, NotAString},
            firstId : {Absent, JsNum(0), JsNum(1), JsStr(<<"0">>), JsStr(<<"1">>)},
            endTokenId : {Absent, JsNum(0), JsNum(1), JsNum(150),
                          JsStr(<<"0">>), JsStr(<<"1">>), JsStr(<<"1", "5", "0">>)},
            infuraKey : BOOLEAN,
            alchemyKey : BOOLEAN,
            primaryProvider : ProviderSettings ] :
      /\ r.contractAddress \in ContractValues(r.endpoint)
      /\ r.firstId \in FirstIdValues(r.endpoint)
      /\ r.endTokenId \in EndIdValues(r.endpoint)
      \* a GET has no body to parse
      /\ r.endpoint = "range GET" => r.bodyOk
      \* the range endpoint reads INFURA_API_KEY only
      /\ r.endpoint \in RangeEndpoints => (r.alchemyKey /\ r.primaryProvider = "")
      \* a body that does not parse holds no parameters
      /\ ~r.bodyOk => (r.contractAddress = Absent /\ r.firstId = Absent
                       /\ r.endTokenId = Absent) }

maxTokens == 100

NoResponse ==
  [status |-> 0, kind |-> "none", hasSuccess |-> FALSE, success |-> FALSE, error |-> ""]

\* NextResponse.json({ error }, { status })
ErrorJson(status, error) ==
  [status |-> status, kind |-> "json", hasSuccess |-> FALSE, success |-> FALSE,
   error |-> error]

\* NextResponse.json({ tokenId, success: false, error })
TokenFailureJson(error) ==
  [status |-> 200, kind |-> "json", hasSuccess |-> TRUE, success |-> FALSE,
   error |-> error]

\* NextResponse.json({ tokenId, success: true, metadata, imageData })
TokenSuccessJson ==
  [status |-> 200, kind |-> "json", hasSuccess |-> TRUE, success |-> TRUE,
   error |-> ""]

\* new NextResponse(zipContent, { headers })
ZipResponse ==
  [status |-> 200, kind |-> "zip", hasSuccess |-> FALSE, success |-> FALSE,
   error |-> ""]

NoCall == [startTokenId |-> 0, endTokenId |-> 0]

Respond(resp) == [pc |-> "responded", resp |-> resp, call |-> NoCall]

\* The handlers' catch blocks: a 500 response with the error's message.
Uncaught(endpoint, error) == [pc |-> "fault", resp |-> NoResponse, call |-> NoCall]

\* part_001 answers `error.message || "An unknown error occurred"`.
CaughtMessage(endpoint, error) ==
  IF endpoint = "token part_001" /\ error.text = ""
    THEN "An unknown error occurred"
    ELSE error.text

Caught(endpoint, error) == Respond(ErrorJson(500, CaughtMessage(endpoint, error)))

InvalidBodyError == Err("Unexpected token in JSON", "", "")

TypeErrorToLowerCase == Err("contractAddress.toLowerCase is not a function", "", "")

ZipError == Err("zip generation failed", "", "")

\* handleScrapeRequest up to `await scrapeNFTs(...)`.
RangeStart(r) ==
  IF Falsy(r.contractAddress) \/ Falsy(r.firstId) \/ Falsy(r.endTokenId)
    THEN Respond(ErrorJson(400, "Missing required parameters"))
  ELSE IF ~r.infuraKey
    THEN Respond(ErrorJson(500, "Missing INFURA_API_KEY in environment variables"))
  ELSE [ pc |-> "scrape", resp |-> NoResponse,
         call |-> [ startTokenId |-> NumberOf(r.firstId),
                    endTokenId |-> Min(NumberOf(r.firstId) + maxTokens,
                                       NumberOf(r.endTokenId)) ] ]

\* POST of the range endpoint: parse the body, then handleScrapeRequest.
RangePost(r) ==
  IF ~r.bodyOk
    THEN Respond(ErrorJson(400, "Invalid request body"))
    ELSE RangeStart(r)

\* POST of the single-token endpoint up to `await getTokenURI(...)`.
TokenStart(r) ==
  IF ~r.bodyOk
    THEN Caught(r.endpoint, InvalidBodyError)
  ELSE IF Falsy(r.contractAddress) \/ Falsy(r.firstId)
    THEN Respond(ErrorJson(400, "Missing required parameters"))
  ELSE IF /\ r.endpoint = "token route.js"
          /\ ~r.infuraKey
          /\ PrimaryProviderOf(r.primaryProvider) = "infura"
    THEN Respond(ErrorJson(500, "Missing INFURA_API_KEY in environment variables"))
  ELSE IF /\ r.endpoint = "token route.js"
          /\ ~r.alchemyKey
          /\ PrimaryProviderOf(r.primaryProvider) = "alchemy"
    THEN Respond(ErrorJson(500, "Missing ALCHEMY_API_KEY in environment variables"))
  ELSE [pc |-> "uri", resp |-> NoResponse, call |-> NoCall]

TokenURIFailedMessage(endpoint) ==
  IF endpoint = "token part_001"
    THEN "Failed to get tokenURI. Please check the contract address and token ID."
    ELSE "Failed to get tokenURI"

\* The request arrives: the handler runs up to its first call into the core.
HReceive ==
  /\ hpc = "start"
  /\ LET next == CASE hreq.endpoint = "range GET"  -> RangeStart(hreq)
                   [] hreq.endpoint = "range POST" -> RangePost(hreq)
                   [] OTHER                        -> TokenStart(hreq)
     IN /\ hpc' = next.pc
        /\ hresp' = next.resp
        /\ hcall' = next.call
  /\ UNCHANGED <<hreq, w3vars, fvars, rvars, svars, cvars, uvars>>

\* `await scrapeNFTs(...)` ends: it throws when a processToken call was
\* rejected, which happens when contractAddress is no string and the range
\* is not empty; otherwise the handler goes on to build the archive.
HScrape ==
  /\ hpc = "scrape"
  /\ IF ~IsString(hreq.contractAddress) /\ hcall.startTokenId <= hcall.endTokenId
       THEN /\ hpc' = Caught(hreq.endpoint, TypeErrorToLowerCase).pc
            /\ hresp' = Caught(hreq.endpoint, TypeErrorToLowerCase).resp
       ELSE /\ hpc' = "zip"
            /\ UNCHANGED hresp
  /\ UNCHANGED <<hreq, hcall, w3vars, fvars, rvars, svars, cvars, uvars>>

\* `await zip.generateAsync(...)` ends.
HZip ==
  /\ hpc = "zip"
  /\ \E generated \in BOOLEAN :
       IF generated
         THEN /\ hpc' = "responded"
              /\ hresp' = ZipResponse
         ELSE /\ hpc' = Caught(hreq.endpoint, ZipError).pc
              /\ hresp' = Caught(hreq.endpoint, ZipError).resp
  /\ UNCHANGED <<hreq, hcall, w3vars, fvars, rvars, svars, cvars, uvars>>

\* `await getTokenURI(...)` ends.
HUri ==
  /\ hpc = "uri"
  /\ IF ~IsString(hreq.contractAddress)
       THEN /\ hpc' = Caught(hreq.endpoint, TypeErrorToLowerCase).pc
            /\ hresp' = Caught(hreq.endpoint, TypeErrorToLowerCase).resp
       ELSE \/ /\ hpc' = "responded"
               /\ hresp' = TokenFailureJson(TokenURIFailedMessage(hreq.endpoint))
            \/ \E tokenURI \in TokenURIValues :
                 IF tokenURI = <<>>
                   THEN /\ hpc' = "responded"
                        /\ hresp' = TokenFailureJson(TokenURIFailedMessage(hreq.endpoint))
                   ELSE /\ hpc' = "meta"
                        /\ UNCHANGED hresp
  /\ UNCHANGED <<hreq, hcall, w3vars, fvars, rvars, svars, cvars, uvars>>

\* `await fetchMetadata(tokenURI)` ends.
HMeta ==
  /\ hpc = "meta"
  /\ \E metadata \in MetadataValues \cup {NoValue} :
       IF metadata = NoValue \/ MetadataUnusable(metadata)
         THEN /\ hpc' = "responded"
              /\ hresp' = TokenFailureJson("Failed to fetch metadata or no image found")
         ELSE /\ hpc' = "image"
              /\ UNCHANGED hresp
  /\ UNCHANGED <<hreq, hcall, w3vars, fvars, rvars, svars, cvars, uvars>>

\* `await fetchImageData(imageUrl)` ends.
HImage ==
  /\ hpc = "image"
  /\ \E imageData \in {NoValue, ImageBytes} :
       /\ hpc' = "responded"
       /\ hresp' = IF imageData = NoValue
                     THEN TokenFailureJson("Failed to download image")
                     ELSE TokenSuccessJson
  /\ UNCHANGED <<hreq, hcall, w3vars, fvars, rvars, svars, cvars, uvars>>

NoRequest ==
  [ endpoint |-> "range GET", bodyOk |-> TRUE, contractAddress |-> Absent,
    firstId |-> Absent, endTokenId |-> Absent, infuraKey |-> TRUE,
    alchemyKey |-> TRUE, primaryProvider |-> "" ]

IdleRoute ==
  /\ hpc = "idle"
  /\ hreq = NoRequest
  /\ hresp = NoResponse
  /\ hcall = NoCall

-----------------------------------------------------------------------------
(***************************************************************************)
(* The web form (app/page.js): handleSubmit and the client's processToken  *)
(***************************************************************************)

\* const maxTokens = 50 of handleSubmit.
formMaxTokens == 50

\* What the form's inputs hold at submission: the address field, and the two
\* number fields as strings of digits (empty when cleared).  viaBrowser tells
\* a submission by the button, which the browser's constraint validation
\* guards, from a submit event a script dispatches, which it does not.
FormInputs ==
  [ contractAddress : {<<>>, MixedCaseAddress.s},
    startTokenId : {<<>>, <<"0">>, <<"1">>},
    endTokenId : {<<>>, <<"0">>, <<"5">>, <<"6", "0">>},
    endpoint : TokenEndpoints,
    viaBrowser : BOOLEAN ]

NoFormInput ==
  [ contractAddress |-> <<>>, startTokenId |-> <<>>, endTokenId |-> <<>>,
    endpoint |-> "token route.js", viaBrowser |-> TRUE ]

\* The inputs' attributes: `required` on all three, min="1" on the two
\* number fields.
ConstraintsMet(in) ==
  /\ in.contractAddress # <<>>
  /\ in.startTokenId # <<>> /\ ParseDigits(in.startTokenId) >= 1
  /\ in.endTokenId # <<>> /\ ParseDigits(in.endTokenId) >= 1

NoFormResult == [tokenId |-> 0, success |-> FALSE, error |-> ""]

\* Math.min(start + maxTokens, end)
ActualEndTokenId(start, end) == Min(start + formMaxTokens, end)

\* JSON.stringify({ contractAddress, tokenId }) sent to /api/scrape; the
\* server's environment holds both keys.
FormRequest(in, tokenId) ==
  [ endpoint |-> in.endpoint, bodyOk |-> TRUE,
    contractAddress |-> JsStr(in.contractAddress),
    firstId |-> JsNum(tokenId), endTokenId |-> Absent,
    infuraKey |-> TRUE, alchemyKey |-> TRUE, primaryProvider |-> "" ]

\* response.ok
ResponseOk(resp) == resp.status >= 200 /\ resp.status <= 299

\* The value the client's processToken returns for a response.
FormResult(tokenId, pc, resp) ==
  IF pc = "fault"
    THEN [tokenId |-> tokenId, success |-> FALSE, error |-> "Unexpected token in JSON"]
  ELSE IF ~ResponseOk(resp)
    THEN [tokenId |-> tokenId, success |-> FALSE,
          error |-> IF resp.error = "" THEN "Failed to process token" ELSE resp.error]
  ELSE [tokenId |-> tokenId, success |-> resp.success, error |-> resp.error]

\* handleSubmit up to the loop: the validation and the limit.
FormSubmit ==
  /\ upc = "start"
  /\ uin.viaBrowser => ConstraintsMet(uin)
  /\ LET start == ParseDigits(uin.startTokenId)
         end == ParseDigits(uin.endTokenId)
         problem ==
           IF uin.contractAddress = <<>>
             THEN "Contract address is required"
           ELSE IF uin.startTokenId = <<>> \/ uin.endTokenId = <<>>
             THEN "Token ID range is required"
           ELSE IF start > end
             THEN "Start Token ID must be less than or equal to End Token ID"
           ELSE ""
     IN IF problem # ""
          THEN /\ upc' = "error"
               /\ uerror' = problem
               /\ UNCHANGED <<utoken, uactualEnd>>
          ELSE /\ upc' = "loop"
               /\ utoken' = start
               /\ uactualEnd' = ActualEndTokenId(start, end)
               /\ UNCHANGED uerror
  /\ UNCHANGED <<uin, uposted, ulast, w3vars, fvars, rvars, svars, hvars, cvars>>

\* The button is pressed while an input violates its constraints: the browser
\* reports the field and fires no submit event.
FormRefused ==
  /\ upc = "start"
  /\ uin.viaBrowser
  /\ ~ConstraintsMet(uin)
  /\ upc' = "refused"
  /\ UNCHANGED <<uin, utoken, uactualEnd, uposted, ulast, uerror,
                 w3vars, fvars, rvars, svars, hvars, cvars>>

\* One pass of the loop up to `await fetch("/api/scrape", ...)`: the request
\* leaves for the single-token endpoint.
FormPost ==
  /\ upc = "loop"
  /\ utoken <= uactualEnd
  /\ upc' = "await"
  /\ uposted' = uposted + 1
  /\ hpc' = "start"
  /\ hreq' = FormRequest(uin, utoken)
  /\ hresp' = NoResponse
  /\ hcall' = NoCall
  /\ UNCHANGED <<uin, utoken, uactualEnd, ulast, uerror,
                 w3vars, fvars, rvars, svars, cvars>>

\* The response arrives: processToken returns, the result is pushed and the
\* loop variable is incremented.
FormReceive ==
  /\ upc = "await"
  /\ hpc \in {"responded", "fault"}
  /\ upc' = "loop"
  /\ ulast' = FormResult(utoken, hpc, hresp)
  /\ utoken' = utoken + 1
  /\ UNCHANGED <<uin, uactualEnd, uposted, uerror,
                 w3vars, fvars, rvars, svars, hvars, cvars>>

\* fetch rejects (the server was not reached): processToken's catch block
\* returns the failure.
FormFetchFailed ==
  /\ upc = "await"
  /\ hpc = "start"
  /\ upc' = "loop"
  /\ hpc' = "idle"
  /\ ulast' = [tokenId |-> utoken, success |-> FALSE, error |-> "Failed to fetch"]
  /\ utoken' = utoken + 1
  /\ UNCHANGED <<uin, uactualEnd, uposted, uerror, hreq, hresp, hcall,
                 w3vars, fvars, rvars, svars, cvars>>

\* The loop has ended: createAndDownloadZip.
FormZip ==
  /\ upc = "loop"
  /\ utoken > uactualEnd
  /\ \E generated \in BOOLEAN :
       IF generated
         THEN /\ upc' = "done"
              /\ UNCHANGED uerror
         ELSE /\ upc' = "error"
              /\ uerror' = "zip generation failed"
  /\ UNCHANGED <<uin, utoken, uactualEnd, uposted, ulast,
                 w3vars, fvars, rvars, svars, hvars, cvars>>

IdleForm ==
  /\ upc = "idle"
  /\ uin = NoFormInput
  /\ utoken = 0
  /\ uactualEnd = 0
  /\ uposted = 0
  /\ ulast = NoFormResult
  /\ uerror = ""

(***************************************************************************)
(* The image's transport: base64 in the single-token endpoint (route.js    *)
(* 77-88, part_001 75-86), atob in the client (page.js 301-311)            *)
(***************************************************************************)

\* The longest image tried, in bytes.
MaxImageLen == 4

\* The byte values tried: the extremes and two in between.
ByteValues == {0, 1, 77, 255}

RECURSIVE SeqsUpTo(_, _)
SeqsUpTo(S, n) ==
  IF n = 0 THEN {<<>>}
  ELSE LET shorter == SeqsUpTo(S, n - 1)
       IN shorter \cup {Append(q, x) : q \in {r \in shorter : Len(r) = n - 1}, x \in S}

Images == SeqsUpTo(ByteValues, MaxImageLen)

Base64Alphabet ==
  << "A", "B", "C", "D", "E", "F", "G", "H", "I", "J", "K", "L", "M",
     "N", "O", "P", "Q", "R", "S", "T", "U", "V", "W", "X", "Y", "Z",
     "a", "b", "c", "d", "e", "f", "g", "h", "i", "j", "k", "l", "m",
     "n", "o", "p", "q", "r", "s", "t", "u", "v", "w", "x", "y", "z",
     "0", "1", "2", "3", "4", "5", "6", "7", "8", "9", "+", "/" >>

Base64Pad == "="

Base64Char(sextet) == Base64Alphabet[sextet + 1]

Base64Value(c) == (CHOOSE i \in 1..Len(Base64Alphabet) : Base64Alphabet[i] = c) - 1

\* The characters of one group of one, two or three bytes.
EncodeGroupSevenBits(g) ==
  LET b(i) == IF i <= Len(g) THEN g[i] % 128 ELSE 0
      n    == b(1) * 65536 + b(2) * 256 + b(3)
  IN << Base64Char(n \div 262144),
        Base64Char((n \div 4096) % 64),
        IF Len(g) >= 2 THEN Base64Char((n \div 64) % 64) ELSE Base64Pad,
        IF Len(g) >= 3 THEN Base64Char(n % 64) ELSE Base64Pad >>

EncodeGroup(g) ==
  LET b(i) == IF i <= Len(g) THEN g[i] ELSE 0
      n    == b(1) * 65536 + b(2) * 256 + b(3)
  IN << Base64Char(n \div 262144),
        Base64Char((n \div 4096) % 64),
        IF Len(g) >= 2 THEN Base64Char((n \div 64) % 64) ELSE Base64Pad,
        IF Len(g) >= 3 THEN Base64Char(n % 64) ELSE Base64Pad >>

\* Buffer.from(data).toString("base64")
RECURSIVE ToBase64(_)
ToBase64(bytes) ==
  IF bytes = <<>> THEN <<>>
  ELSE IF Len(bytes) <= 3 THEN EncodeGroup(bytes)
  ELSE EncodeGroup(SubSeq(bytes, 1, 3)) \o ToBase64(SubSeq(bytes, 4, Len(bytes)))

\* The char codes of the binary string one group of four characters decodes to.
DecodeGroup(q) ==
  LET v(i) == IF q[i] = Base64Pad THEN 0 ELSE Base64Value(q[i])
      n    == v(1) * 262144 + v(2) * 4096 + v(3) * 64 + v(4)
      all  == << n \div 65536, (n \div 256) % 256, n % 256 >>
  IN IF q[3] = Base64Pad THEN SubSeq(all, 1, 1)
     ELSE IF q[4] = Base64Pad THEN SubSeq(all, 1, 2)
     ELSE all

\* atob(base64): the binary string, as the sequence of its char codes.
RECURSIVE atob(_)
atob(chars) ==
  IF Len(chars) < 4 THEN <<>>
  ELSE DecodeGroup(SubSeq(chars, 1, 4)) \o atob(SubSeq(chars, 5, Len(chars)))

\* array[i] = binary.charCodeAt(i), stored in a Uint8Array
Uint8ArrayOf(binary) == [i \in 1..Len(binary) |-> binary[i] % 256]

\* The endpoint builds imageData.base64 of its success response.
EncodeForTransport ==
  /\ cpc = "start"
  /\ cpc' = "encoded"
  /\ cbase64' = ToBase64(cbytes)
  /\ UNCHANGED <<cbytes, carray>>
  /\ UNCHANGED <<w3vars, fvars, rvars, svars, hvars, uvars>>

\* createAndDownloadZip decodes the image of a success result.
DecodeInClient ==
  /\ cpc = "encoded"
  /\ cpc' = "decoded"
  /\ carray' = Uint8ArrayOf(atob(cbase64))
  /\ UNCHANGED <<cbytes, cbase64>>
  /\ UNCHANGED <<w3vars, fvars, rvars, svars, hvars, uvars>>

IdleTransport ==
  /\ cpc = "idle"
  /\ cbytes = <<>>
  /\ cbase64 = <<>>
  /\ carray = <<>>

-----------------------------------------------------------------------------
(***************************************************************************)
(* Chain Client Resolver: getWeb3Instance, nftScraper.js 45-129            *)
(***************************************************************************)

\* Object.entries(RPC_PROVIDERS): the keys in declaration order.
ProviderNames == <<"infura", "alchemy", "ankr", "cloudflare", "public">>

NumProviders == Len(ProviderNames)

IsProvider(name) == \E i \in 1..NumProviders : ProviderNames[i] = name

\* An absent API key (process.env.INFURA_API_KEY undefined); a template
\* literal renders it as the text "undefined".
NoApiKey == "undefined"

ApiKeys == {NoApiKey, "KEY"}

\* The primaryProvider arguments tried: every table key and one unknown id.
PrimaryIds == {ProviderNames[i] : i \in 1..NumProviders} \cup {"other"}

\* RPC_PROVIDERS[name](apiKey): the endpoint URL, as <<base, key part>>.
RPC_PROVIDERS(name, apiKey) ==
  CASE name = "infura"     -> <<"https://mainnet.infura.io/v3/", apiKey>>
    [] name = "alchemy"    -> <<"https://eth-mainnet.g.alchemy.com/v2/", apiKey>>
    [] name = "ankr"       -> <<"https://rpc.ankr.com/eth", "">>
    [] name = "cloudflare" -> <<"https://cloudflare-eth.com", "">>
    [] name = "public"     -> <<"https://ethereum.publicnode.com", "">>

\* RPC_PROVIDERS[primaryProvider]?.(apiKey) || RPC_PROVIDERS.infura(apiKey)
PrimaryEndpoint(primaryProvider, apiKey) ==
  IF IsProvider(primaryProvider)
    THEN RPC_PROVIDERS(primaryProvider, apiKey)
    ELSE RPC_PROVIDERS("infura", apiKey)

\* The name of the table entry whose endpoint the first attempt uses.
PrimaryName(primaryProvider) ==
  IF IsProvider(primaryProvider) THEN primaryProvider ELSE "infura"

\* `if (providerName === primaryProvider) continue;`
SkipsFallback(providerName, primaryProvider) == providerName = primaryProvider

\* The first loop position at or after i that is not skipped
\* (NumProviders + 1 when the loop is exhausted).
RECURSIVE NextCandidate(_, _)
NextCandidate(i, primaryProvider) ==
  IF i > NumProviders THEN NumProviders + 1
  ELSE IF SkipsFallback(ProviderNames[i], primaryProvider)
    THEN NextCandidate(i + 1, primaryProvider)
    ELSE i

\* An error of web3.eth.getBlockNumber() against an endpoint.
ProbeError(name) == Err("connection failed", name, "")

\* `throw new Error("All RPC providers failed. ...")` once the loop is over.
AllFailedCarriesLast(lastError) == lastError

AllProvidersFailedError(lastError) ==
  Err("All RPC providers failed. Please check your API keys and network connection.", "", "")

Probe(name, url, ok) == [name |-> name, url |-> url, ok |-> ok]

\* The try block: build the primary endpoint, probe it once.
W3TryPrimary ==
  /\ w3pc = "start"
  /\ \E ok \in BOOLEAN :
       LET name == PrimaryName(w3primary)
           url  == PrimaryEndpoint(w3primary, w3apiKey)
       IN /\ w3probes' = Append(w3probes, Probe(name, url, ok))
          /\ IF ok
               THEN /\ w3pc' = "returned"
                    /\ w3handle' = url
                    /\ UNCHANGED <<w3idx, w3error>>
               ELSE \* catch (error): enter the loop; its first candidate
                    \* exists, since the loop skips at most one entry
                    /\ w3pc' = "fallback"
                    /\ w3idx' = NextCandidate(1, w3primary)
                    /\ UNCHANGED <<w3handle, w3error>>
  /\ UNCHANGED <<w3primary, w3apiKey>>
  /\ UNCHANGED <<fvars, rvars, svars, hvars, cvars, uvars>>

\* One iteration of the fallback loop that is not skipped: one probe.
W3TryFallback ==
  /\ w3pc = "fallback"
  /\ w3idx <= NumProviders
  /\ \E ok \in BOOLEAN :
       LET name == ProviderNames[w3idx]
           url  == RPC_PROVIDERS(name, w3apiKey)
           nxt  == NextCandidate(w3idx + 1, w3primary)
       IN /\ w3probes' = Append(w3probes, Probe(name, url, ok))
          /\ IF ok
               THEN /\ w3pc' = "returned"
                    /\ w3handle' = url
                    /\ UNCHANGED <<w3idx, w3error>>
               ELSE IF nxt <= NumProviders
                 THEN /\ w3idx' = nxt
                      /\ UNCHANGED <<w3pc, w3handle, w3error>>
                 ELSE \* the loop is over: throw
                      /\ w3pc' = "threw"
                      /\ w3idx' = nxt
                      /\ w3error' = AllProvidersFailedError(ProbeError(name))
                      /\ UNCHANGED w3handle
  /\ UNCHANGED <<w3primary, w3apiKey>>
  /\ UNCHANGED <<fvars, rvars, svars, hvars, cvars, uvars>>

IdleWeb3 ==
  /\ w3pc = "idle"
  /\ w3primary = "infura"
  /\ w3apiKey = NoApiKey
  /\ w3idx = 0
  /\ w3probes = <<>>
  /\ w3handle = None
  /\ w3error = NoError

InitWeb3 ==
  /\ w3pc = "start"
  /\ w3primary \in PrimaryIds
  /\ w3apiKey \in ApiKeys
  /\ w3idx = 0
  /\ w3probes = <<>>
  /\ w3handle = None
  /\ w3error = NoError
  /\ IdleFetch
  /\ IdleResolve
  /\ IdleScrape
  /\ IdleRoute
  /\ IdleTransport
  /\ IdleForm

NextWeb3 == W3TryPrimary \/ W3TryFallback

SpecWeb3 == InitWeb3 /\ [][NextWeb3]_vars

InitFetch ==
  /\ fpc = "start"
  /\ fkind \in {"json", "binary"}
  /\ furi \in FetchUris
  /\ fidx = 0
  /\ frequests = <<>>
  /\ flastError = NoError
  /\ fcaught = NoError
  /\ fresult = NullResult
  /\ IdleWeb3
  /\ IdleResolve
  /\ IdleScrape
  /\ IdleRoute
  /\ IdleTransport
  /\ IdleForm

NextFetch == FetchEnter \/ FetchGateway \/ FetchDirect

SpecFetch == InitFetch /\ [][NextFetch]_vars

InitResolve ==
  IdleResolve /\ IdleWeb3 /\ IdleFetch /\ IdleScrape /\ IdleRoute /\ IdleTransport
  /\ IdleForm

NextResolve ==
  \/ \E c \in Callers, args \in ResolveInputs : RCall(c, args[1], args[2])
  \/ \E c \in Callers : RWeb3(c)
  \/ \E c \in Callers : RInfo(c)
  \/ \E c \in Callers : RTokenURI(c)
  \/ \E c \in Callers : RUri(c)

SpecResolve == InitResolve /\ [][NextResolve]_vars

Init ==
  /\ spc = "start"
  /\ sargs \in [ contractAddress : ScrapeContracts,
                  startTokenId : ScrapeStarts,
                  endTokenId : 0..MaxTokenId ]
  /\ ScrapeLocals
  /\ tokenURICache \in PriorCaches
  /\ rpc = [c \in Callers |-> "idle"]
  /\ rargs = [c \in Callers |-> NoArgs]
  /\ rret = [c \in Callers |-> NullValue]
  /\ rio = [c \in Callers |-> <<>>]
  /\ rafter = [c \in Callers |-> {}]
  /\ IdleWeb3
  /\ IdleFetch
  /\ IdleRoute
  /\ IdleTransport
  /\ IdleForm

Next ==
  \/ ScrapeCall
  \/ \E id \in TokenSpace : TResolved(id)
  \/ \E id \in TokenSpace : TMetadata(id)
  \/ \E id \in TokenSpace : TImage(id)
  \/ BatchDone

Spec == Init /\ [][Next]_vars

\* The scrape under the assumption that every chain and HTTP call eventually
\* returns or fails: a step that can be taken is eventually taken.
FairSpec == Spec /\ WF_vars(Next)

InitRoute ==
  /\ hpc = "start"
  /\ hreq \in Requests
  /\ hresp = NoResponse
  /\ hcall = NoCall
  /\ IdleWeb3
  /\ IdleFetch
  /\ IdleResolve
  /\ IdleScrape
  /\ IdleTransport
  /\ IdleForm

NextRoute == HReceive \/ HScrape \/ HZip \/ HUri \/ HMeta \/ HImage

SpecRoute == InitRoute /\ [][NextRoute]_vars

\* The web form and the endpoints: one submission of the form, whose POSTs
\* the single-token endpoint serves, or one request another client sends to
\* an endpoint.
InitForm ==
  /\ \/ /\ upc = "start"
        /\ uin \in FormInputs
        /\ IdleRoute
     \/ /\ upc = "idle"
        /\ uin = NoFormInput
        /\ hpc = "start"
        /\ hreq \in Requests
        /\ hresp = NoResponse
        /\ hcall = NoCall
  /\ utoken = 0
  /\ uactualEnd = 0
  /\ uposted = 0
  /\ ulast = NoFormResult
  /\ uerror = ""
  /\ IdleWeb3
  /\ IdleFetch
  /\ IdleResolve
  /\ IdleScrape
  /\ IdleTransport

NextForm ==
  \/ FormSubmit
  \/ FormRefused
  \/ FormPost
  \/ FormReceive
  \/ FormFetchFailed
  \/ FormZip
  \/ NextRoute

SpecForm == InitForm /\ [][NextForm]_vars

InitTransport ==
  /\ cpc = "start"
  /\ cbytes \in Images
  /\ cbase64 = <<>>
  /\ carray = <<>>
  /\ IdleWeb3
  /\ IdleFetch
  /\ IdleResolve
  /\ IdleScrape
  /\ IdleRoute
  /\ IdleForm

NextTransport == EncodeForTransport \/ DecodeInClient

SpecTransport == InitTransport /\ [][NextTransport]_vars

\* ---- properties of the Token Processor and the Collection Scraper ----

RangeLength == sargs.endTokenId - sargs.startTokenId + 1

\* C1: a scrape of start <= end returns exactly end - start + 1 results, and
\* each token id of [start, end] has exactly one result among them, whichever
\* tokens failed.
C1_OneResultPerToken ==
  (spc = "returned" /\ sargs.startTokenId <= sargs.endTokenId) =>
    /\ Len(results) = RangeLength
    /\ \A id \in sargs.startTokenId..sargs.endTokenId :
         Cardinality({k \in 1..Len(results) : results[k].tokenId = id}) = 1

\* A scrape of two batches returned, with failed and successful tokens.
C1_Witness ==
  /\ spc = "returned"
  /\ Len(results) > BatchSize
  /\ \E k \in 1..Len(results) : results[k].success
  /\ \E k \in 1..Len(results) : ~results[k].success

\* C2: in the returned sequence results[i] is the result of token start + i
\* (counting i from 0), in whatever order the calls of a batch settled.
C2_SubmissionOrder ==
  spc = "returned" =>
    \A k \in 1..Len(results) : results[k].tokenId = sargs.startTokenId + k - 1

\* A scrape returned in which a call settled before an earlier call of its batch.
C2_Witness ==
  /\ spc = "returned"
  /\ outOfOrder
  /\ Len(results) > BatchSize

\* C3: processToken never raises: no call is rejected, so no error reaches
\* scrapeNFTs, and every failed call returns success:false with a message.
C3_ProcessNeverRaises ==
  /\ \A id \in TokenSpace : tpc[id] # "rejected"
  /\ spc # "threw"
  /\ \A id \in TokenSpace :
       (tpc[id] = "fulfilled" /\ ~tres[id].success) => tres[id].error # ""

AllFour(id) ==
  /\ thist[id].resolved
  /\ thist[id].fetched
  /\ thist[id].hasImage
  /\ thist[id].imageFetched

\* C4: a TokenResult is success exactly when, in its call, a pointer was
\* resolved, the metadata document was fetched, the document has an image
\* reference and the image bytes were fetched; a success result carries the
\* metadata and the image, and no result in results is a success without them.
C4_SuccessIffAllFour ==
  /\ \A id \in TokenSpace :
       tpc[id] = "fulfilled" =>
         /\ tres[id].success <=> AllFour(id)
         /\ tres[id].success =>
              tres[id].metadata # NoValue /\ tres[id].imageData # NoValue
         /\ tres[id].tokenId = id
  /\ \A k \in 1..Len(results) :
       results[k].success <=>
         (results[k].metadata # NoValue /\ results[k].imageData # NoValue)

\* One call succeeded, another failed at the last stage only.
C4_Witness ==
  \E id, other \in TokenSpace :
    /\ tpc[id] = "fulfilled" /\ tres[id].success /\ AllFour(id)
    /\ tpc[other] = "fulfilled" /\ ~tres[other].success
    /\ thist[other].resolved /\ thist[other].fetched /\ thist[other].hasImage
    /\ ~thist[other].imageFetched

\* C5: failure isolation.  The scrape never aborts: a batch whose calls have
\* ended is followed by the next batch, and a scrape that ended has a result
\* for every token of the range.
C5_FailureIsolation ==
  /\ spc # "threw"
  /\ spc = "returned" =>
       \A id \in sargs.startTokenId..sargs.endTokenId :
         \E k \in 1..Len(results) : results[k].tokenId = id

\* What holds of failure isolation: for a contractAddress that is a string
\* no call is rejected and the scrape does not throw.
ScrapeAbortsOnlyOnBadAddress ==
  (spc = "threw" \/ \E id \in TokenSpace : tpc[id] = "rejected") =>
    ~IsString(sargs.contractAddress)

NumInFlight == Cardinality({id \in TokenSpace : InFlight(id)})

\* C15: at most 5 processToken calls of a scrape are in flight, however
\* long the range; each call in flight waits for one network call, so at
\* most 5 network calls are outstanding; the calls in flight are calls of
\* the current batch.
C15_AtMostFiveInFlight ==
  /\ NumInFlight <= BatchSize
  /\ NumInFlight <= 5
  /\ \A id \in TokenSpace : InFlight(id) => InBatch(id)

\* A range longer than a batch, with a full batch in flight.
C15_Witness ==
  /\ Len(tokenIds) > BatchSize
  /\ NumInFlight = BatchSize

\* C16: batches run strictly in order.  In the step that starts a call, no
\* call is in flight, and every token before the new batch has its result
\* in results: a success or a failure.
C16_BatchesInOrder ==
  [][ \A id \in TokenSpace :
        (tpc[id] = "none" /\ tpc'[id] # "none") =>
          /\ \A other \in TokenSpace : ~InFlight(other)
          /\ Len(results') = si'
          /\ \A k \in 1..si' : results'[k].tokenId = tokenIds'[k]
          /\ \E k \in (si' + 1)..Len(tokenIds') : tokenIds'[k] = id ]_vars

\* The second batch runs after a first batch with a failed and a
\* successful token.
C16_Witness ==
  /\ si = BatchSize
  /\ \E id \in TokenSpace : InFlight(id)
  /\ \E k \in 1..Len(results) : results[k].success
  /\ \E k \in 1..Len(results) : ~results[k].success

\* The message of the failure result for a call that fails at stage pc
\* ("none": the pointer came from the cache when the call started).
StageFailureMessage(pc) ==
  CASE pc \in {"none", "uri"} -> "Failed to get tokenURI"
    [] pc = "meta"            -> "Failed to fetch metadata or no image found"
    [] pc = "image"           -> "Failed to download image"

\* C19: the stages of a processToken call run in the order pointer,
\* metadata, image, each at most once; a stage starts only after the one
\* before succeeded (a pointer that is not empty; a document with an image
\* reference); a call that failed runs no further stage, and its result
\* names the stage that failed.  (A call rejected at its start has run no
\* stage and has no result.)
C19_StageOrder ==
  [][ \A id \in TokenSpace :
        tpc'[id] # tpc[id] =>
          \/ tpc'[id] = "none" /\ tpc[id] = "fulfilled"
          \/ tpc'[id] = "rejected" /\ tpc[id] = "none"
          \/ tpc'[id] = "uri" /\ tpc[id] = "none"
          \/ /\ tpc'[id] = "meta" /\ tpc[id] \in {"none", "uri"}
             /\ thist'[id].resolved
             /\ tokenURICache'[getCacheKey(sargs.contractAddress, JsNum(id))] # <<>>
          \/ /\ tpc'[id] = "image" /\ tpc[id] = "meta"
             /\ thist'[id].fetched /\ thist'[id].hasImage
          \/ /\ tpc'[id] = "fulfilled" /\ tpc[id] \in {"none", "uri", "meta", "image"}
             /\ tres'[id].success => (tpc[id] = "image" /\ thist'[id].imageFetched)
             /\ ~tres'[id].success => tres'[id].error = StageFailureMessage(tpc[id]) ]_vars

\* One call failed at the metadata stage (a document without an image
\* reference), another at the pointer stage on an empty cached pointer.
C19_Witness ==
  \E id, other \in TokenSpace :
    /\ tpc[id] = "fulfilled"
    /\ tres[id].error = "Failed to fetch metadata or no image found"
    /\ thist[id].resolved /\ thist[id].fetched /\ ~thist[id].hasImage
    /\ tpc[other] = "fulfilled"
    /\ tres[other].error = "Failed to get tokenURI"
    /\ thist[other].resolved

\* C24: every started processToken call eventually returns a TokenResult,
\* and every scrape eventually returns its ScrapeResult.
C24_EventuallyReturns ==
  /\ <>(spc = "returned")
  /\ \A id \in TokenSpace : (tpc[id] # "none") ~> (tpc[id] = "fulfilled")

\* What holds of it: every scrape ends, by returning or by throwing, and
\* every call in flight settles; a scrape with a string contractAddress
\* returns.
ScrapeEnds ==
  /\ <>(spc \in {"returned", "threw"})
  /\ \A id \in TokenSpace : InFlight(id) ~> Settled(id)
  /\ IsString(sargs.contractAddress) => <>(spc = "returned")

\* ---- properties of the endpoints ----

\* A response that reports a failure: JSON that is not the success result.
IsFailureResponse == hpc = "responded" /\ hresp.kind = "json" /\ ~hresp.success

\* C6: every failure answered at the endpoints, in range mode and in
\* single-token mode, is an object with a success flag and a message, and
\* no request ends in an unhandled fault.
C6_SuccessFlagOnEveryFailure ==
  /\ hpc # "fault"
  /\ IsFailureResponse => (hresp.hasSuccess /\ hresp.error # "")

\* C6 as the code has it: no request ends in an unhandled fault and every
\* failure response carries a message; the success flag is on the failures
\* of the single-token pipeline only (status 200, success:false), while a
\* rejected request, a missing key and a caught exception are answered
\* with { error } and status 400 or 500, and range mode never answers with
\* a success flag.
C6_FailureResponseShape ==
  /\ hpc # "fault"
  /\ IsFailureResponse =>
       /\ hresp.error # ""
       /\ \/ hresp.hasSuccess /\ hresp.status = 200
             /\ hreq.endpoint \in TokenEndpoints
          \/ ~hresp.hasSuccess /\ hresp.status \in {400, 500}
  /\ (hpc = "responded" /\ hreq.endpoint \in RangeEndpoints) => ~hresp.hasSuccess

\* A request whose pipeline threw was answered by the catch block.
C6_Witness ==
  /\ hpc = "responded"
  /\ hreq.bodyOk
  /\ hreq.contractAddress = NotAString
  /\ hresp.status = 500
  /\ hresp.error = TypeErrorToLowerCase.text

\* ---- properties of the image's transport ----

\* C14: round trip.  The bytes the client decodes from imageData.base64 are
\* the bytes fetchImageData returned, and as many; the encoded text is the
\* padded base64 of four characters for every three bytes.
C14_Base64RoundTrip ==
  /\ cpc = "decoded" => carray = cbytes
  /\ cpc \in {"encoded", "decoded"} =>
       /\ Len(cbase64) = 4 * ((Len(cbytes) + 2) \div 3)
       /\ \A i \in 1..Len(cbase64) :
            cbase64[i] = Base64Pad => i > Len(cbase64) - 2

\* An image of more than one group whose last group is a single byte with
\* the high bit set went through, with two padding characters.
C14_Witness ==
  /\ cpc = "decoded"
  /\ Len(cbytes) = 4
  /\ cbytes[4] = 255
  /\ cbase64[Len(cbase64) - 1] = Base64Pad
  /\ carray = cbytes

\* ---- properties of the Resource Fetcher ----

IsIpfsCall == IsString(furi) /\ StartsWithIpfs(furi.s)

LastRequest == frequests[Len(frequests)]

\* C8: gateway fallback completeness.  For a content-addressed URI the i-th
\* request goes to the i-th gateway of the list, no request follows a
\* successful one, the call goes on to the next gateway after each failure,
\* and once gateway k answers 2xx the call returns gateway k's payload,
\* having issued exactly k requests; fetchMetadata and fetchImageData alike.
C8_GatewayFallback ==
  IsIpfsCall =>
    /\ \A i \in 1..Len(frequests) :
         frequests[i].url = GatewayUrl(i, ReplaceFirstIpfs(furi.s))
    /\ \A i \in 1..Len(frequests) - 1 : ~IsSuccess(frequests[i].outcome)
    /\ (fpc = "gateway" /\ Len(frequests) < NumGateways) => fidx = Len(frequests) + 1
    /\ (fpc = "returned" /\ Len(frequests) < NumGateways) =>
         IsSuccess(LastRequest.outcome)
    /\ (frequests # <<>> /\ IsSuccess(LastRequest.outcome)) =>
         /\ fpc = "returned"
         /\ ~fresult.isNull
         /\ fresult.data = ResponseData(LastRequest.url)
    /\ (fpc = "returned" /\ ~fresult.isNull) =>
         frequests # <<>> /\ IsSuccess(LastRequest.outcome)

\* The spec's scenario: two gateways answer 503, the third answers 200.
C8_Witness ==
  /\ IsIpfsCall
  /\ fpc = "returned"
  /\ Len(frequests) = 3
  /\ frequests[1].outcome = "503"
  /\ frequests[2].outcome = "503"
  /\ IsSuccess(frequests[3].outcome)
  /\ fresult.data = ResponseData(GatewayUrl(3, ReplaceFirstIpfs(furi.s)))

\* The call is over and none of its requests was answered 2xx.
FetchFailed ==
  /\ fpc \in {"returned", "threw"}
  /\ frequests # <<>>
  /\ ~IsSuccess(LastRequest.outcome)

\* C11 as stated: a fetch whose gateway attempts all failed, or whose direct
\* GET failed, raises to its caller the last gateway error, respectively
\* the HTTP error.
C11_RaisesStructuredError ==
  FetchFailed =>
    /\ fpc = "threw"
    /\ fcaught = HttpError(LastRequest.outcome, LastRequest.url)

\* C11 amended: fetchMetadata and fetchImageData never raise.  When every
\* gateway attempt failed, or the direct GET failed, the call returns null;
\* the last gateway error, respectively the HTTP error, is what the
\* function's own catch block receives and logs.  A non-string URI ends the
\* same way, without any request.
C11_FailureReturnsNull ==
  /\ fpc # "threw"
  /\ FetchFailed =>
       /\ fresult = NullResult
       /\ fcaught = HttpError(LastRequest.outcome, LastRequest.url)
       /\ IsIpfsCall => Len(frequests) = NumGateways
       /\ ~IsIpfsCall => Len(frequests) = 1
  /\ (fpc = "returned" /\ ~IsString(furi)) =>
       (fresult = NullResult /\ frequests = <<>> /\ fcaught = TypeErrorStartsWith)
  /\ (fpc = "returned" /\ fresult = NullResult) => fcaught # NoError

\* Every gateway was tried and failed, the last one by a timeout after a 503
\* of the one before.
C11_Witness ==
  /\ IsIpfsCall
  /\ fpc = "returned"
  /\ Len(frequests) = NumGateways
  /\ frequests[NumGateways - 1].outcome = "503"
  /\ LastRequest.outcome = "timeout"
  /\ fresult = NullResult

\* The URI is a string without the ipfs:// prefix.
IsDirectCall == IsString(furi) /\ ~StartsWithIpfs(furi.s)

IsGatewayUrl(url) ==
  url # <<>> /\ \E i \in 1..NumGateways : url[1] = IPFS_GATEWAYS[i]

\* C22: for a URI without the ipfs:// prefix, fetchMetadata and
\* fetchImageData issue exactly one GET, to that URI, with their timeout and
\* header policy, and contact no gateway; the call ends after that one
\* request whether it was answered 2xx (the payload is returned) or not
\* (null is returned).
C22_OneDirectGet ==
  IsDirectCall =>
    /\ Len(frequests) <= 1
    /\ fpc = "returned" => Len(frequests) = 1
    /\ \A i \in 1..Len(frequests) :
         /\ frequests[i].url = furi.s
         /\ ~IsGatewayUrl(frequests[i].url)
         /\ frequests[i].timeout = RequestTimeout(fkind)
         /\ frequests[i].userAgent = "NFT-Scraper/1.0"
    /\ frequests # <<>> =>
         /\ fpc = "returned"
         /\ IsSuccess(LastRequest.outcome) => fresult.data = ResponseData(furi.s)
         /\ ~IsSuccess(LastRequest.outcome) => fresult = NullResult

\* A direct GET of an image timed out: one request, null returned.
C22_Witness ==
  /\ IsDirectCall
  /\ fkind = "binary"
  /\ fpc = "returned"
  /\ Len(frequests) = 1
  /\ LastRequest.outcome = "timeout"
  /\ LastRequest.timeout = BinaryTimeoutMs
  /\ fresult = NullResult

\* ---- properties of the Token URI Resolver ----

Ended(c) == rpc[c] \in {"returned", "threw"}

\* d's call had ended when c's call started, and both had the same arguments.
SequentialSame(d, c) ==
  /\ c # d
  /\ rpc[c] # "idle"
  /\ d \in rafter[c]
  /\ rargs[c] = rargs[d]

RECURSIVE CountPointerCalls(_)
CountPointerCalls(io) ==
  IF io = <<>> THEN 0
  ELSE (IF Head(io) \in {"tokenURI", "uri"} THEN 1 ELSE 0)
       + CountPointerCalls(Tail(io))

\* e resolved d's key, was still running when d returned, and stored a
\* pointer of its own.
StoredLater(e, d) ==
  /\ e # d
  /\ IsString(rargs[e].contractAddress)
  /\ Key(e) = Key(d)
  /\ rpc[e] = "returned"
  /\ ~rret[e].isNull
  /\ rio[e] # <<>>

\* C7 as stated: of two sequential resolutions of the same (contractAddress,
\* tokenId), at most one pointer round-trip is issued in total and the
\* second returns the first's output without new I/O.
C7_CacheIdempotence ==
  \A c, d \in Callers :
    (SequentialSame(d, c) /\ rpc[d] = "returned" /\ rpc[c] = "returned") =>
      /\ CountPointerCalls(rio[d]) + CountPointerCalls(rio[c]) <= 1
      /\ rret[c] = rret[d]
      /\ rio[c] = <<>>

\* C7 amended: when the first of two sequential resolutions of the same
\* (contractAddress, tokenId) returned a pointer, the second returns at once,
\* without any I/O, the pointer the cache holds: the first's output, or that
\* of another resolution of the key that was running beside the first and
\* stored its pointer later.  The first issues at most two pointer round-trips
\* (tokenURI, then uri).
C7_CacheHitAfterSuccess ==
  \A c, d \in Callers :
    (SequentialSame(d, c) /\ rpc[d] = "returned" /\ ~rret[d].isNull) =>
      /\ rpc[c] = "returned"
      /\ rio[c] = <<>>
      /\ ~rret[c].isNull
      /\ \/ rret[c] = rret[d]
         \/ \E e \in Callers \ {c, d} : StoredLater(e, d) /\ rret[c] = rret[e]
      /\ CountPointerCalls(rio[d]) <= 2

C7_Witness ==
  /\ SequentialSame("first", "second")
  /\ rio["first"] # <<>>
  /\ ~rret["first"].isNull
  /\ rpc["second"] = "returned"
  /\ rret["second"] = rret["first"]

\* C12: getTokenURI never raises to its caller: no call ends by throwing,
\* and a resolution that failed returned null.
C12_ResolveNeverRaises ==
  \A c \in Callers :
    /\ rpc[c] # "threw"
    /\ (rpc[c] = "returned" /\ rio[c] # <<>> /\ ~CacheHas(Key(c))) => rret[c].isNull

\* What holds of it: a call throws only for a contractAddress that is no
\* string, and then before any network call.
ResolveRaisesOnlyOnBadAddress ==
  \A c \in Callers :
    rpc[c] = "threw" => (~IsString(rargs[c].contractAddress) /\ rio[c] = <<>>)

Called(c) == rpc[c] # "idle" /\ IsString(rargs[c].contractAddress)

\* The two addresses are equal up to the case of their letters.
SameAddress(c, d) ==
  LET a == rargs[c].contractAddress.s
      b == rargs[d].contractAddress.s
  IN /\ Len(a) = Len(b)
     /\ \A i \in 1..Len(a) : LowerChar(a[i]) = LowerChar(b[i])

\* C13: two resolutions use the same cache key exactly when their addresses
\* are equal up to letter case and their token ids denote the same number,
\* whatever the ids' type or string form.
C13_NumericIdentity ==
  \A c, d \in Callers :
    (c # d /\ Called(c) /\ Called(d)) =>
      ( (SameAddress(c, d) /\ NumberOf(rargs[c].tokenId) = NumberOf(rargs[d].tokenId))
        <=> Key(c) = Key(d) )

\* C13 amended: the key is the lower-cased address and the string form of
\* the token id.  Addresses that differ only in letter case and ids with the
\* same string form (the number 1, the string "1") share an entry; ids of
\* different string forms ("01", 1) do not, though they denote one number;
\* different numbers never share an entry.
C13_KeyByStringForm ==
  \A c, d \in Callers :
    (c # d /\ Called(c) /\ Called(d)) =>
      /\ (SameAddress(c, d) /\ ToStringJs(rargs[c].tokenId) = ToStringJs(rargs[d].tokenId))
           <=> Key(c) = Key(d)
      /\ Key(c) = Key(d) => NumberOf(rargs[c].tokenId) = NumberOf(rargs[d].tokenId)

\* Three resolutions of one token: the number 1 under a mixed-case address
\* and the string "1" under the lower-case one share a key, and the second
\* was served from the cache; the string "01" has a key of its own.
C13_Witness ==
  /\ rargs["first"] = [contractAddress |-> MixedCaseAddress, tokenId |-> JsNum(1)]
  /\ rargs["second"] = [contractAddress |-> LowerCaseAddress, tokenId |-> JsStr(<<"1">>)]
  /\ rargs["third"] = [contractAddress |-> LowerCaseAddress, tokenId |-> JsStr(<<"0", "1">>)]
  /\ Key("first") = Key("second")
  /\ Key("third") # Key("first")
  /\ rpc["second"] = "returned" /\ rio["second"] = <<>>
  /\ rio["third"] # <<>>

\* C17: a call that finds its key in the cache returns the cached value in
\* the step of the call, having issued no network call (no chain client, no
\* contract call), and leaves the cache as it was; a call that returned
\* does nothing more.
C17_CacheHitFrame ==
  [][ \A c \in Callers :
        /\ ( /\ rpc[c] = "idle" /\ rpc'[c] # "idle"
             /\ IsString(rargs'[c].contractAddress)
             /\ getCacheKey(rargs'[c].contractAddress, rargs'[c].tokenId)
                  \in DOMAIN tokenURICache ) =>
            /\ rpc'[c] = "returned"
            /\ rret'[c] = StringValue(
                 tokenURICache[getCacheKey(rargs'[c].contractAddress, rargs'[c].tokenId)])
            /\ rio'[c] = <<>>
            /\ tokenURICache' = tokenURICache
        /\ rpc[c] = "returned" =>
            (rpc'[c] = "returned" /\ rio'[c] = rio[c] /\ rret'[c] = rret[c]) ]_vars

\* The third call was served a pointer from the cache while the second was
\* still waiting for the contract.
C17_Witness ==
  /\ rpc["third"] = "returned"
  /\ rio["third"] = <<>>
  /\ rret["third"] = StringValue(<<IpfsScheme, "bafymeta">>)
  /\ rpc["second"] = "tokenURI"
  /\ tokenURICache[Key("third")] = <<IpfsScheme, "bafymeta">>

IsPrefix(s, t) == Len(s) <= Len(t) /\ \A i \in 1..Len(s) : s[i] = t[i]

\* The network calls of a resolution that misses the cache, in order.
ReadOrder == <<"getBlockNumber", "name/symbol", "tokenURI", "uri">>

JustIssued(c) == rio'[c][Len(rio'[c])]

StoredAndReturned(c) ==
  /\ rpc'[c] = "returned"
  /\ ~rret'[c].isNull
  /\ Key(c) \in DOMAIN tokenURICache'
  /\ tokenURICache'[Key(c)] = rret'[c].s

\* C18: on a cache miss tokenURI is called first, and uri only by a call
\* whose tokenURI failed.  When tokenURI succeeds its string is returned and
\* stored; when uri succeeds its string (with the {id} placeholder filled
\* in) is returned and stored; when both fail the call returns null, the
\* sign of an unresolvable pointer, and stores nothing.
C18_PointerReadOrder ==
  [][ \A c \in Callers :
        /\ IsPrefix(rio'[c], ReadOrder)
        /\ (rio'[c] # rio[c] /\ JustIssued(c) = "tokenURI") =>
             \/ StoredAndReturned(c) /\ rret'[c].s \in TokenURIValues
             \/ rpc'[c] = "uri" /\ tokenURICache' = tokenURICache
        /\ (rio'[c] # rio[c] /\ JustIssued(c) = "uri") =>
             /\ rpc[c] = "uri"
             /\ \/ /\ StoredAndReturned(c)
                   /\ \E u \in UriValues : rret'[c].s = FormatUri(u, rargs[c].tokenId)
                \/ /\ rpc'[c] = "returned" /\ rret'[c].isNull
                   /\ tokenURICache' = tokenURICache ]_vars

\* A resolution whose tokenURI failed and whose uri succeeded.
C18_Witness ==
  \E c \in Callers :
    /\ rpc[c] = "returned"
    /\ rio[c] = ReadOrder
    /\ ~rret[c].isNull
    /\ Key(c) \in DOMAIN tokenURICache
    /\ tokenURICache[Key(c)] = rret[c].s

\* The calls of c and d overlapped: neither had ended when the other started.
Concurrent(c, d) ==
  /\ c # d
  /\ rpc[c] # "idle" /\ rpc[d] # "idle"
  /\ c \notin rafter[d] /\ d \notin rafter[c]

\* c's call missed the cache, read a pointer and stored it.
Wrote(c) ==
  /\ IsString(rargs[c].contractAddress)
  /\ rpc[c] = "returned"
  /\ ~rret[c].isNull
  /\ rio[c] # <<>>

\* C23 as stated: two concurrent resolutions of one uncached key that both
\* miss write equal values, so what they return and what the cache ends up
\* holding does not depend on the interleaving.
C23_EqualWrites ==
  \A c, d \in Callers :
    (Concurrent(c, d) /\ Wrote(c) /\ Wrote(d) /\ Key(c) = Key(d)) =>
      /\ rret[c] = rret[d]
      /\ tokenURICache[Key(c)] = rret[c].s

\* C23 amended: last write wins.  Every resolution that read a pointer
\* returns the string it read itself and, in the same step, makes it the
\* value of its key whatever another resolution had stored there; every
\* other entry stays as it was.  (The values of two concurrent resolutions
\* are whatever the contract answered to each; nothing makes them equal.)
C23_LastWriteWins ==
  [][ \A c \in Callers :
        (rpc[c] \in {"tokenURI", "uri"} /\ rpc'[c] = "returned" /\ ~rret'[c].isNull) =>
          /\ Key(c) \in DOMAIN tokenURICache'
          /\ tokenURICache'[Key(c)] = rret'[c].s
          /\ DOMAIN tokenURICache' = DOMAIN tokenURICache \cup {Key(c)}
          /\ \A k \in DOMAIN tokenURICache \ {Key(c)} :
               tokenURICache'[k] = tokenURICache[k] ]_vars

\* Two overlapping resolutions of one key returned different strings (the
\* second read tokenURI, the first fell back to uri), and the entry holds
\* the second one's.
C23_Witness ==
  /\ Concurrent("first", "second")
  /\ Wrote("first") /\ Wrote("second")
  /\ Key("first") = Key("second")
  /\ rret["first"] # rret["second"]
  /\ rio["first"] = ReadOrder
  /\ tokenURICache[Key("first")] = rret["second"].s

HexChar(d) ==
  <<"0", "1", "2", "3", "4", "5", "6", "7", "8", "9", "a", "b", "c", "d", "e", "f">>[d + 1]

\* The hexadecimal digits of a non-negative integer.
RECURSIVE HexDigits(_)
HexDigits(n) ==
  IF n < 16 THEN <<HexChar(n)>>
  ELSE HexDigits(n \div 16) \o <<HexChar(n % 16)>>

\* The pointer came from uri(tokenId).
ReturnedFromUri(c) ==
  /\ rpc[c] = "returned"
  /\ ~rret[c].isNull
  /\ rio[c] # <<>>
  /\ rio[c][Len(rio[c])] = "uri"

\* C21: a pointer that comes from uri(tokenId) and holds the placeholder is
\* returned with the placeholder replaced by the token id in hexadecimal,
\* zero-padded on the left to 64 digits.
C21_HexPlaceholder ==
  \A c \in Callers :
    ReturnedFromUri(c) =>
      \E u \in UriValues :
        rret[c].s =
          ReplaceFirstId(u, PadStart(HexDigits(NumberOf(rargs[c].tokenId)), IdWidth))

\* What holds of it: the ids below 10, whose decimal and hexadecimal digits
\* are the same, are substituted as the claim says when given as numbers.
HexPlaceholderBelowTen ==
  \A c \in Callers :
    (ReturnedFromUri(c) /\ rargs[c].tokenId.t = "num" /\ rargs[c].tokenId.n < 10) =>
      \E u \in UriValues :
        rret[c].s =
          ReplaceFirstId(u, PadStart(HexDigits(rargs[c].tokenId.n), IdWidth))

\* ---- properties of the Chain Client Resolver ----

ProbeNames == [i \in 1..Len(w3probes) |-> w3probes[i].name]

\* The table in declaration order without the entry `skip`.
RECURSIVE TableWithout(_, _)
TableWithout(i, skip) ==
  IF i > NumProviders THEN <<>>
  ELSE IF ProviderNames[i] = skip
    THEN TableWithout(i + 1, skip)
    ELSE <<ProviderNames[i]>> \o TableWithout(i + 1, skip)

NoProbeAfterSuccess == \A i \in 1..Len(w3probes) - 1 : ~w3probes[i].ok

ReturnsFirstLive ==
  w3pc = "returned" =>
    /\ w3probes[Len(w3probes)].ok
    /\ w3handle = w3probes[Len(w3probes)].url

\* C9: provider fallback completeness.  The provider of the first attempt is
\* probed first; after its failure the other providers of the table are probed
\* in declaration order, the first attempt's provider being skipped; the call
\* returns the handle of the first live provider and probes none after it (so
\* a live primary means no fallback probe at all).
C9_ProviderFallback ==
  /\ IsPrefix(ProbeNames,
              <<PrimaryName(w3primary)>> \o TableWithout(1, PrimaryName(w3primary)))
  /\ NoProbeAfterSuccess
  /\ ReturnsFirstLive

\* C20: in one call every candidate endpoint is probed at most once, for
\* every primaryProvider, one that is not in the table included: there are
\* never more probes than providers in the table.
C20_ProbedAtMostOnce ==
  /\ Len(w3probes) <= NumProviders
  /\ \A i, j \in 1..Len(w3probes) : i # j => w3probes[i].url # w3probes[j].url

\* What holds of it: for a primaryProvider of the table no endpoint is
\* probed twice, and no call issues more than one probe beyond the table.
ProbedOnceForTableIds ==
  /\ IsProvider(w3primary) => C20_ProbedAtMostOnce
  /\ Len(w3probes) <= NumProviders + 1

\* C10 as stated: the error raised when every candidate failed carries the
\* last provider error.
C10_CarriesLastError ==
  w3pc = "threw" =>
    Carries(w3error, ProbeError(w3probes[Len(w3probes)].name))

EveryProviderFailed ==
  /\ \A i \in 1..Len(w3probes) : ~w3probes[i].ok
  /\ \A n \in 1..NumProviders :
       \E i \in 1..Len(w3probes) : w3probes[i].name = ProviderNames[n]

\* C10 amended: the call throws exactly when every provider of the table has
\* been probed and every probe failed; the error it throws is a new error
\* with the fixed message "All RPC providers failed. ..." and carries no
\* provider error (those are only logged).
C10_AllProvidersFailed ==
  /\ EveryProviderFailed <=> w3pc = "threw"
  /\ w3pc = "threw" =>
       /\ w3error.text = "All RPC providers failed. Please check your API keys and network connection."
       /\ \A i \in 1..Len(w3probes) :
            ~Carries(w3error, ProbeError(w3probes[i].name))
       /\ w3handle = None
  /\ w3pc # "threw" => w3error = NoError

C10_Witness == w3pc = "threw" /\ Len(w3probes) >= NumProviders

-----------------------------------------------------------------------------
(***************************************************************************)
(* The token limit                                                         *)
(***************************************************************************)

\* The number of token ids of the range the range endpoint handed to
\* scrapeNFTs.
RangeSize(call) ==
  IF call.startTokenId <= call.endTokenId
    THEN call.endTokenId - call.startTokenId + 1
    ELSE 0

\* C25: the token limit holds: the range endpoint processes at most
\* maxTokens = 100 token ids per request and the web form at most 50 token
\* ids per submission.
C25_TokenLimit ==
  /\ hcall # NoCall => RangeSize(hcall) <= maxTokens
  /\ uposted <= formMaxTokens

\* What the code does keep: one id more than the limit at most.
TokenLimitPlusOne ==
  /\ hcall # NoCall => RangeSize(hcall) <= maxTokens + 1
  /\ uposted <= formMaxTokens + 1

\* A request for ids 1..150 reached scrapeNFTs with ids 1..101, and a
\* submission of 1..60 posted ids 1..51.
LimitExceeded ==
  \/ hcall # NoCall /\ RangeSize(hcall) = maxTokens + 1
  \/ upc = "done" /\ uposted = formMaxTokens + 1

-----------------------------------------------------------------------------
(***************************************************************************)
(* fetchMetadata and fetchImageData side by side                           *)
(***************************************************************************)

\* The for..of loop over IPFS_GATEWAYS from entry i on, run against the
\* outcomes its GETs meet in order: the requests issued, whether the call
\* has returned, and the value returned.  Running out of outcomes leaves the
\* call at its await.
RECURSIVE GatewayLoop(_, _, _, _)
GatewayLoop(kind, ipfsHash, i, outcomes) ==
  IF i > NumGateways
    THEN [requests |-> <<>>, returned |-> TRUE, result |-> NullResult]
  ELSE IF outcomes = <<>>
    THEN [requests |-> <<>>, returned |-> FALSE, result |-> NullResult]
  ELSE LET gatewayUrl == <<IPFS_GATEWAYS[i]>> \o ipfsHash
           request == [ url |-> gatewayUrl, timeout |-> RequestTimeout(kind),
                        userAgent |-> "NFT-Scraper/1.0", outcome |-> Head(outcomes) ]
       IN IF IsSuccess(Head(outcomes))
            THEN [ requests |-> <<request>>, returned |-> TRUE,
                   result |-> FetchResult(kind, gatewayUrl, Head(outcomes)) ]
            ELSE LET rest == GatewayLoop(kind, ipfsHash, i + 1, Tail(outcomes))
                 IN [ requests |-> <<request>> \o rest.requests,
                      returned |-> rest.returned,
                      result |-> rest.result ]

\* One call of either function as a function of its argument and of the
\* outcomes of its GETs.
FetchRun(kind, uri, outcomes) ==
  IF ~IsString(uri)
    THEN [requests |-> <<>>, returned |-> TRUE, result |-> NullResult]
  ELSE IF StartsWithIpfs(uri.s)
    THEN GatewayLoop(kind, ReplaceFirstIpfs(uri.s), 1, outcomes)
  ELSE IF outcomes = <<>>
    THEN [requests |-> <<>>, returned |-> FALSE, result |-> NullResult]
  ELSE [ requests |-> << [ url |-> uri.s, timeout |-> RequestTimeout(kind),
                           userAgent |-> "NFT-Scraper/1.0",
                           outcome |-> Head(outcomes) ] >>,
         returned |-> TRUE,
         result |-> IF IsSuccess(Head(outcomes))
                      THEN FetchResult(kind, uri.s, Head(outcomes))
                      ELSE NullResult ]

fetchMetadata(tokenURI, outcomes) == FetchRun("json", tokenURI, outcomes)

\* fetchImageData with a loop that starts at the second gateway.
fetchImageDataFromSecond(imageUrl, outcomes) ==
  IF IsString(imageUrl) /\ StartsWithIpfs(imageUrl.s)
    THEN GatewayLoop("binary", ReplaceFirstIpfs(imageUrl.s), 2, outcomes)
    ELSE FetchRun("binary", imageUrl, outcomes)

fetchImageData(imageUrl, outcomes) == FetchRun("binary", imageUrl, outcomes)

\* The outcomes the GETs of the call have met, in order.
OutcomesMet == [i \in 1..Len(frequests) |-> frequests[i].outcome]

UrlsOf(run) == [i \in 1..Len(run.requests) |-> run.requests[i].url]

-----------------------------------------------------------------------------
(***************************************************************************)
(* What writes the cache                                                   *)
(***************************************************************************)

\* In this step the contract read of c's resolution succeeded.
ReadSucceeded(c) ==
  /\ rpc[c] \in {"tokenURI", "uri"}
  /\ rpc'[c] = "returned"
  /\ ~rret'[c].isNull

\* In this step c's resolution failed: no provider, or both methods failed.
ResolutionFailed(c) ==
  /\ rpc[c] \in {"web3", "uri"}
  /\ rpc'[c] = "returned"
  /\ rret'[c].isNull

\* The step changed the cache at no key other than key.
SameExceptAt(key) ==
  \A k \in (DOMAIN tokenURICache \cup DOMAIN tokenURICache') \ {key} :
    /\ k \in DOMAIN tokenURICache
    /\ k \in DOMAIN tokenURICache'
    /\ tokenURICache'[k] = tokenURICache[k]

\* In this step d's resolution starts, for a key whose earlier resolutions
\* all failed.
StartsAfterFailure(d) ==
  /\ rpc[d] = "idle"
  /\ rpc'[d] # "idle"
  /\ IsString(rargs'[d].contractAddress)
  /\ LET key == getCacheKey(rargs'[d].contractAddress, rargs'[d].tokenId)
     IN /\ \E c \in Callers \ {d} :
             /\ rpc[c] = "returned" /\ rret[c].isNull
             /\ IsString(rargs[c].contractAddress) /\ Key(c) = key
        /\ \A c \in Callers \ {d} :
             (IsString(rargs[c].contractAddress) /\ Key(c) = key)
               => (rpc[c] = "returned" /\ rret[c].isNull)

\* C27: the cache is written only by a resolution whose contract read
\* succeeded, and only at that resolution's own key; a resolution that fails
\* leaves the cache unchanged, so a failure is never cached and a later
\* resolution of the same key goes to the network again.
C27_CacheFrame ==
  [][ /\ tokenURICache' # tokenURICache =>
           \E c \in Callers : ReadSucceeded(c) /\ SameExceptAt(Key(c))
      /\ \A c \in Callers : ResolutionFailed(c) => tokenURICache' = tokenURICache
      /\ \A d \in Callers : StartsAfterFailure(d) => rpc'[d] = "web3" ]_vars

\* A resolution failed after going to the network, the cache holds nothing
\* at its key, and a later resolution of the same key went to the network.
C27_Witness ==
  \E c, d \in Callers :
    /\ c # d
    /\ rpc[c] = "returned" /\ rret[c].isNull /\ rio[c] # <<>>
    /\ c \in rafter[d]
    /\ IsString(rargs[d].contractAddress)
    /\ Key(d) = Key(c)
    /\ Key(c) \notin DOMAIN tokenURICache
    /\ rio[d] # <<>>

\* fetchMetadata and fetchImageData never touch the cache.
FetchLeavesCache == [][tokenURICache' = tokenURICache]_vars

-----------------------------------------------------------------------------
(***************************************************************************)
(* Cached pointers and processToken's test of them                         *)
(***************************************************************************)

\* processToken goes on to fetchMetadata with this pointer (`!tokenURI` is
\* false).
AcceptedAsResolved(tokenURI) == AfterPointer(0, tokenURI).pc = "meta"

\* c's call was answered from the cache: it returned a string without a
\* network call.
ServedFromCache(c) ==
  /\ rpc[c] = "returned"
  /\ ~rret[c].isNull
  /\ rio[c] = <<>>

\* C28: every pointer the resolver stores in the cache is one that
\* processToken accepts as resolved: no cached entry makes the later process
\* calls for its token fail with "Failed to get tokenURI" without any
\* network access.
C28_CachedPointersAccepted ==
  /\ \A k \in DOMAIN tokenURICache : AcceptedAsResolved(tokenURICache[k])
  /\ \A c \in Callers : ServedFromCache(c) => AcceptedAsResolved(rret[c].s)

\* tokenURI() returned the empty string for one call, and two later calls of
\* the same key were answered from the cache with it.
PoisonedEntryServed ==
  \E c, d, e \in Callers :
    /\ c # d /\ d # e /\ c # e
    /\ rpc[c] = "returned" /\ rio[c] # <<>> /\ rret[c] = StringValue(<<>>)
    /\ ServedFromCache(d) /\ ~AcceptedAsResolved(rret[d].s)
    /\ ServedFromCache(e) /\ ~AcceptedAsResolved(rret[e].s)

\* The empty string is the only cached value processToken refuses, and the
\* uri() path never stores it.
OnlyEmptyStringRefused ==
  /\ \A k \in DOMAIN tokenURICache :
       ~AcceptedAsResolved(tokenURICache[k]) => tokenURICache[k] = <<>>
  /\ \A c \in Callers :
       (rpc[c] = "returned" /\ ~rret[c].isNull /\ rio[c] # <<>>
          /\ rio[c][Len(rio[c])] = "uri") => AcceptedAsResolved(rret[c].s)

-----------------------------------------------------------------------------
(***************************************************************************)
(* "Missing required parameters" and token id 0                            *)
(***************************************************************************)

MissingParameters == ErrorJson(400, "Missing required parameters")

\* C29: the single-token endpoint answers 400 "Missing required parameters"
\* only when contractAddress or tokenId is absent from the request: every
\* integer token id the web form iterates over, 0 included, is run through
\* the pipeline.
C29_MissingOnlyWhenAbsent ==
  /\ (hpc = "responded" /\ hreq.endpoint \in TokenEndpoints /\ hresp = MissingParameters)
       => (hreq.contractAddress = Absent \/ hreq.firstId = Absent)
  /\ ulast.error # "Missing required parameters"

\* What the parameter test does guarantee: the 400 answers a falsy
\* contractAddress or tokenId, and nothing else.
MissingIffFalsy ==
  (hpc \notin {"idle", "start"} /\ hreq.endpoint \in TokenEndpoints) =>
    ((hresp = MissingParameters)
       <=> (hreq.bodyOk /\ (Falsy(hreq.contractAddress) \/ Falsy(hreq.firstId))))

\* A POST whose body holds a contract address and tokenId 0 was answered 400.
TokenZeroMissing ==
  /\ hpc = "responded"
  /\ hreq.endpoint \in TokenEndpoints
  /\ hreq.firstId = JsNum(0)
  /\ IsString(hreq.contractAddress)
  /\ hresp = MissingParameters

\* A scripted submission with Start Token ID 0: the POST of token 0 was
\* answered 400 and token 0 is reported as failed.
TokenZeroAnswered ==
  /\ upc = "loop"
  /\ ulast = [tokenId |-> 0, success |-> FALSE, error |-> "Missing required parameters"]

-----------------------------------------------------------------------------
(***************************************************************************)
(* The cache keys of the calls in flight                                   *)
(***************************************************************************)

\* The cache key of the call that the k-th entry of the current batch
\* started.
BatchKey(k) == getCacheKey(sargs.contractAddress, JsNum(Batch[k]))

\* C30: within one scrape, the processToken calls in flight at the same time
\* have pairwise different cache keys (same contract, distinct token ids):
\* a scrape never performs two concurrent resolutions of the same key.
C30_DistinctKeysInFlight ==
  (spc = "await" /\ IsString(sargs.contractAddress)) =>
    \A k, l \in 1..Len(Batch) :
      (k # l /\ InFlight(Batch[k]) /\ InFlight(Batch[l])) => BatchKey(k) # BatchKey(l)

\* A full batch is in flight, two of its calls at their resolution.
C30_Witness ==
  /\ spc = "await"
  /\ IsString(sargs.contractAddress)
  /\ Len(Batch) = BatchSize
  /\ \A k \in 1..Len(Batch) : InFlight(Batch[k])
  /\ \E k, l \in 1..Len(Batch) :
       k # l /\ tpc[Batch[k]] = "uri" /\ tpc[Batch[l]] = "uri"

-----------------------------------------------------------------------------
(***************************************************************************)
(* The empty range                                                         *)
(***************************************************************************)

EmptyRange == sargs.startTokenId > sargs.endTokenId

\* C31: for start > end, scrapeNFTs starts no processToken call, issues no
\* network call, leaves the cache unchanged and returns an empty results
\* sequence together with the given start and end.
C31_EmptyRangeReturnsEmpty ==
  [][ EmptyRange =>
        /\ spc = "start"
        /\ spc' = "returned"
        /\ tpc' = [id \in TokenSpace |-> "none"]
        /\ thist' = [id \in TokenSpace |-> NoHistory]
        /\ rcalls' = rcalls
        /\ tokenURICache' = tokenURICache
        /\ ScrapeResult' = [ contractAddress |-> sargs.contractAddress,
                             startTokenId |-> sargs.startTokenId,
                             endTokenId |-> sargs.endTokenId,
                             results |-> <<>> ] ]_vars

\* A scrape of the range 2..1 has returned, with a cache that held an entry
\* before the call.
C31_Witness ==
  /\ spc = "returned"
  /\ EmptyRange
  /\ sargs.startTokenId = 2 /\ sargs.endTokenId = 1
  /\ ScrapeResult.results = <<>>
  /\ tokenURICache # <<>>

====
